---- MODULE Spec2Model ----
(***************************************************************************)
(* Time-series tile animation and pre-cache engine of the LiivSky2 map     *)
(* page: the useWmsAnimation hook (timeline coordinator), the MapPage      *)
(* component (overlay composer and cache bookkeeping) and the              *)
(* WmsAnimatedLayer component of WeatherMap (frame pre-cache manager).     *)
(*                                                                         *)
(* Every action is one event-loop task: the handler, the React render it   *)
(* causes and the effects of that commit (children before parents,         *)
(* cleanups before bodies).                                                *)
(***************************************************************************)
EXTENDS Integers, Sequences, FiniteSets, TLC

(***************************************************************************)
(* Bounds of the model.                                                    *)
(***************************************************************************)
\* longest time axis a capabilities response carries
MaxFrames == 2
\* number of distinct positions of the server's time window
MaxStart == 2
\* resolve requests issued over one run (fetchRef never exceeds it)
MaxFetch == 3
\* largest |index| passed to seek beyond the valid range
SeekSlack == 1
\* longest primary and secondary timelines of the proportional-mapping runs
MaxPrimary == 10
MaxSecondary == 4
\* most frames of a response that needs more than one batch
MaxLongFrames == 4
\* the interval end points lie within this many quarter hours
MaxQuarters == 5
\* most comma-separated segments of a dimension string
MaxSegments == 2
\* longest time axis of an overlay of the models page
MaxModelFrames == 7
\* the resolved lists of the models page have a length within MaxOver of a
\* multiple, up to MaxSteps, of MAX_FRAMES
MaxSteps == 2
MaxOver == 1

(***************************************************************************)
(* Program constants.                                                      *)
(***************************************************************************)
MAX_ANIMATION_FRAMES == 18
BATCH_SIZE == 3
MAX_FRAMES == 48
HRRR_TIMELINE_KEY == "__hrrr__"

\* JavaScript NaN as a frame index (x % 0); never a valid index
NaN == -1000

RadarProductIds == {"rain", "snow", "precipType"}
SatelliteProductIds == {"visIR", "natural", "cloudType", "sandwich"}

RADAR_PRODUCT_MAP ==
  [p \in RadarProductIds |->
     CASE p = "rain" -> "RADAR_1KM_RRAI"
       [] p = "snow" -> "RADAR_1KM_RSNO"
       [] OTHER -> "Radar_1km_SfcPrecipType"]

SATELLITE_PRODUCT_MAP ==
  [p \in SatelliteProductIds |->
     CASE p = "visIR" -> "GOES-East_1km_DayVis-NightIR"
       [] p = "natural" -> "GOES-East_1km_NaturalColor"
       [] p = "cloudType" -> "GOES-East_1km_DayCloudType-NightMicrophysics"
       [] OTHER -> "GOES-East_1km_VisibleIRSandwich-NightMicrophysicsIR"]

EC_LAYERS_lightning == "Lightning_2.5km_Density"

EC_GEOMET_WMS_URL == "https://geo.weather.gc.ca/geomet"
IEM_HRRR_WMS_URL == "https://mesonet.agron.iastate.edu/cgi-bin/wms/hrrr/refd.cgi"

HRRR_FORECAST_LAYERS ==
  << "refd_0000", "refd_0060", "refd_0120", "refd_0180", "refd_0240",
     "refd_0300", "refd_0360", "refd_0420", "refd_0480", "refd_0540",
     "refd_0600", "refd_0660", "refd_0720", "refd_0780", "refd_0840",
     "refd_0900", "refd_0960", "refd_1020", "refd_1080" >>

\* the map layers of DEFAULT_LAYERS, in their order
DEFAULT_LAYERS == << "radar", "satellite", "lightning", "hrrr" >>
MapLayerIds == { DEFAULT_LAYERS[i] : i \in 1..Len(DEFAULT_LAYERS) }
\* the layers toggled in the specifications of the coordinator and of the pre-cache
AnimLayerIds == {"radar", "lightning", "hrrr"}
LifeLayerIds == {"radar", "hrrr"}
CacheLayerIds == {"radar", "lightning"}

(***************************************************************************)
(* The server's time axis: ISO timestamps, oldest first.  A capabilities   *)
(* response carries a window of it.                                        *)
(***************************************************************************)
TimeAxis == << "T01", "T02", "T03", "T04", "T05", "T06", "T07", "T08",
              "T09", "T10", "T11", "T12" >>
Window(lo, n) == SubSeq(TimeAxis, lo, lo + n - 1)
ServerTimeLists == { Window(lo, n) : lo \in 1..MaxStart, n \in 0..MaxFrames }

\* responses whose list does not fit into the first batch of the pre-cache
LongTimeLists == { Window(lo, n) : lo \in 1..MaxStart, n \in (BATCH_SIZE + 1)..MaxLongFrames }

\* outcome of fetchTimeDimension for one layer
FetchOutcomes == {"ok", "httpError", "noTimeDimension"}

(***************************************************************************)
(* Small helpers.                                                          *)
(***************************************************************************)
Range(s) == { s[i] : i \in 1..Len(s) }
Max2(a, b) == IF a >= b THEN a ELSE b
Min2(a, b) == IF a <= b THEN a ELSE b
\* Math.ceil(n / k) for n >= 0, k > 0
CeilDiv(n, k) == (n + k - 1) \div k

\* times.slice(-n): the last n elements
SliceLast(s, n) == IF Len(s) <= n THEN s ELSE SubSeq(s, Len(s) - n + 1, Len(s))

\* the JavaScript remainder a % b: sign of the dividend, NaN for b = 0
JsRem(a, b) ==
  IF a = NaN \/ b = NaN \/ b = 0 THEN NaN
  ELSE IF a >= 0 THEN a % b ELSE 0 - ((0 - a) % b)

\* Math.max / Math.min, NaN-contagious
JsMax(a, b) == IF a = NaN \/ b = NaN THEN NaN ELSE Max2(a, b)
JsMin(a, b) == IF a = NaN \/ b = NaN THEN NaN ELSE Min2(a, b)


(***************************************************************************)
(* State.                                                                  *)
(***************************************************************************)
VARIABLES
  \* MapPage
  pageMounted,       \* FALSE once MapPage has been unmounted
  layers,            \* map layer id -> active
  radarProduct,
  satelliteProduct,
  cacheRef,          \* overlay id -> [loaded, total], a partial function
  cacheReady,
  cacheProgress,     \* the ratio loadedAll / totalAll as [num, den]
  \* useWmsAnimation
  timelines,         \* sequence of [wmsLayer, times]
  frameIndex,
  playing,
  loading,
  fetchRef,
  inflight,          \* resolve calls awaiting their capabilities responses
  timers,            \* live setInterval timers, each with its captured totalFrames
  intervalRef,       \* id of the last timer created, 0 for null
  \* WeatherMap: one WmsAnimatedLayer per overlay id (the React key)
  comp,
  \* geometTime: a call of one of its functions and what it returned
  call,
  ret,
  \* history: what the last step was, when it was the completion of a resolve
  \* or a step of the frame index ("none" otherwise)
  last

mapVars == << layers, radarProduct, satelliteProduct, cacheRef, cacheReady, cacheProgress >>
animVars == << timelines, frameIndex, playing, loading, fetchRef, inflight, timers, intervalRef >>
vars == << call, ret, pageMounted, layers, radarProduct, satelliteProduct, cacheRef, cacheReady, cacheProgress,
           timelines, frameIndex, playing, loading, fetchRef, inflight, timers,
           intervalRef, comp, last >>

(***************************************************************************)
(* geometTime.  A timestamp string is [ms, form]: the instant it denotes   *)
(* (milliseconds after the start of the hour the axis begins with) and how *)
(* it is written ("Z": seconds and Z, ".000Z": with milliseconds,          *)
(* ".mmmZ": with milliseconds that are not 000, "padded": seconds and Z    *)
(* between blanks, "invalid": not a date, "empty": the empty string).  A   *)
(* duration string is [kind, ...]: "PD" for P(n)D, "PT" for                *)
(* PT(h)H(m)M(s)S, "bad" for what neither pattern matches.                 *)
(***************************************************************************)
\* new Date(token).getTime()
ParseDate(token) == IF token.form \in {"invalid", "empty"} THEN NaN ELSE token.ms

\* new Date(t).toISOString().replace('.000Z', 'Z'); toISOString throws a
\* RangeError for an invalid date
FormatDate(t) ==
  IF t = NaN THEN [ms |-> NaN, form |-> "RangeError"]
  ELSE [ms |-> t, form |-> IF t % 1000 = 0 THEN "Z" ELSE ".mmmZ"]

\* a parser that takes a duration it does not recognise for an hour
ParseDurationLenient(dur) ==
  CASE dur.kind = "PD" -> dur.d * 86400000
    [] dur.kind = "PT" -> (dur.h * 3600 + dur.m * 60 + dur.s) * 1000
    [] OTHER -> 3600000

ParseDuration(dur) ==
  CASE dur.kind = "PD" -> dur.d * 86400000
    [] dur.kind = "PT" -> (dur.h * 3600 + dur.m * 60 + dur.s) * 1000
    [] OTHER -> 0

\* a loop that stops before the end of the interval
RECURSIVE ExpandLoopExclusive(_, _, _)
ExpandLoopExclusive(t, endMs, stepMs) ==
  IF t < endMs
  THEN << FormatDate(t) >> \o ExpandLoopExclusive(t + stepMs, endMs, stepMs)
  ELSE << >>

\* for (let t = start; t <= end; t += stepMs) times.push(...)
RECURSIVE ExpandLoop(_, _, _)
ExpandLoop(t, endMs, stepMs) ==
  IF t <= endMs
  THEN << FormatDate(t) >> \o ExpandLoop(t + stepMs, endMs, stepMs)
  ELSE << >>

\* an expandInterval that also falls back to the raw start when start > end
ExpandIntervalFallback(parts) ==
  IF Len(parts) # 3 THEN << [form |-> "raw", parts |-> parts] >>
  ELSE LET start == ParseDate(parts[1])
           end == ParseDate(parts[2])
           stepMs == ParseDuration(parts[3])
       IN IF start = NaN \/ end = NaN \/ stepMs <= 0 \/ start > end
          THEN (IF parts[1].form = "empty" THEN << >> ELSE << parts[1] >>)
          ELSE ExpandLoop(start, end, stepMs)

\* expandInterval of the string parts[1]/parts[2]/.../parts[n]
ExpandInterval(parts) ==
  IF Len(parts) # 3 THEN << [form |-> "raw", parts |-> parts] >>
  ELSE LET start == ParseDate(parts[1])
           end == ParseDate(parts[2])
           stepMs == ParseDuration(parts[3])
       IN IF start = NaN \/ end = NaN \/ stepMs <= 0
          THEN (IF parts[1].form = "empty" THEN << >> ELSE << parts[1] >>)
          ELSE ExpandLoop(start, end, stepMs)

\* the timestamps and durations of the intervals expanded in SpecExpand:
\* quarter hours from the start of the axis, written both ways, and steps of
\* 0 to 105 minutes, of a day, and of unrecognised syntax
DateTokens ==
  { [ms |-> q * 900000, form |-> f] : q \in 0..MaxQuarters, f \in {"Z", ".000Z"} }
  \cup { [ms |-> 0, form |-> "invalid"] }
DurationTokens ==
  { [kind |-> "PT", h |-> h, m |-> m, s |-> 0] : h \in 0..1, m \in {0, 15, 30, 45} }
  \cup { [kind |-> "PD", d |-> 1], [kind |-> "bad"] }

(***************************************************************************)
(* geometTime: expandTimeDimension.  A dimension string is the sequence of *)
(* its comma-separated segments, a segment the sequence of its parts       *)
(* between slashes; the empty string is the one segment of one empty part. *)
(***************************************************************************)
EmptyToken == [ms |-> 0, form |-> "empty"]
EmptyString == << << EmptyToken >> >>

\* s.trim(), for the segments that carry blanks: single padded timestamps
TrimSegment(seg) ==
  IF Len(seg) = 1 /\ seg[1].form = "padded" THEN << [seg[1] EXCEPT !.form = "Z"] >> ELSE seg

\* dimensionStr.split(',').map((s) => s.trim()).filter(Boolean)
SplitSegments(dim) ==
  SelectSeq([i \in 1..Len(dim) |-> TrimSegment(dim[i])], LAMBDA seg : seg # << EmptyToken >>)

\* seg.includes('/')
IsIntervalSegment(seg) == Len(seg) >= 2

\* the for loop over the segments: what it pushes to results
RECURSIVE ExpandSegments(_)
ExpandSegments(segs) ==
  IF segs = << >> THEN << >>
  ELSE (IF IsIntervalSegment(Head(segs)) THEN ExpandInterval(Head(segs)) ELSE Head(segs))
       \o ExpandSegments(Tail(segs))

\* a result that keeps the duplicates
DedupeNothing(s) == s

\* [...new Set(results)]: a Set iterates in the order of first insertion
RECURSIVE Dedupe(_)
Dedupe(s) ==
  IF s = << >> THEN << >>
  ELSE LET before == Dedupe(SubSeq(s, 1, Len(s) - 1))
       IN IF s[Len(s)] \in Range(before) THEN before ELSE Append(before, s[Len(s)])

ExpandTimeDimension(dim) ==
  IF dim = EmptyString THEN << >> ELSE Dedupe(ExpandSegments(SplitSegments(dim)))

\* the dimension strings expanded in SpecDimension: up to MaxSegments
\* segments, each a literal (a timestamp in one of its spellings, something
\* that is no date, nothing at all), a start/end/step interval or a two-part
\* interval
DimSegments ==
  LET dates == { [ms |-> q * 900000, form |-> f] : q \in 0..1, f \in {"Z", ".000Z"} }
               \cup { [ms |-> 500, form |-> ".mmmZ"], [ms |-> 0, form |-> "invalid"],
                      EmptyToken }
      ends == { [ms |-> 900000, form |-> "Z"], [ms |-> 0, form |-> "invalid"] }
      steps == { [kind |-> "PT", h |-> 0, m |-> 15, s |-> 0],
                 [kind |-> "PT", h |-> 0, m |-> 0, s |-> 0], [kind |-> "bad"] }
  IN { << t >> : t \in dates \cup { [ms |-> 0, form |-> "padded"] } }
     \cup { << s, e, d >> : s \in dates, e \in ends, d \in steps }
     \cup { << [ms |-> 0, form |-> "Z"], [ms |-> 900000, form |-> "Z"] >> }
DimensionStrings ==
  UNION { [1..n -> DimSegments] : n \in 1..MaxSegments }

(***************************************************************************)
(* useWmsAnimation: derived values.                                        *)
(***************************************************************************)
\* activeWmsLayerNames of MapPage: radar, satellite, lightning, in this order
ActiveWmsLayerNames(lay, rp, sp) ==
  (IF lay["radar"] THEN << RADAR_PRODUCT_MAP[rp] >> ELSE << >>)
  \o (IF lay["satellite"] THEN << SATELLITE_PRODUCT_MAP[sp] >> ELSE << >>)
  \o (IF lay["lightning"] THEN << EC_LAYERS_lightning >> ELSE << >>)

TotalFrames(tls) == IF tls = << >> THEN 0 ELSE Len(tls[1].times)

\* Math.round(x) for x = num / den >= 0, den > 0: floor(x + 1/2)
RoundDiv(num, den) == (2 * num + den) \div (2 * den)

\* a mapping that shows every timeline at the primary's own index
LayerTimeSameIndex(tl, fi, total) ==
  IF Len(tl.times) = 0 THEN ""
  ELSE IF total <= 1 THEN tl.times[Len(tl.times)]
  ELSE IF fi \in 0..(Len(tl.times) - 1) THEN tl.times[fi + 1] ELSE ""

\* the frame key shown for timeline tl ("" when there is none)
LayerTime(tl, fi, total) ==
  IF Len(tl.times) = 0 THEN ""
  ELSE IF total <= 1 THEN tl.times[Len(tl.times)]
  ELSE IF fi = NaN THEN ""
  ELSE LET idx == RoundDiv(fi * (Len(tl.times) - 1), total - 1)
       IN IF idx \in 0..(Len(tl.times) - 1) THEN tl.times[idx + 1] ELSE ""

TimelineNames(tls) == { tls[i].wmsLayer : i \in 1..Len(tls) }
TimelineOf(tls, name) == tls[CHOOSE i \in 1..Len(tls) : tls[i].wmsLayer = name]

\* animState.layerTimes[name] ("" for undefined)
LayerTimes(tls, fi, name) ==
  IF name \in TimelineNames(tls)
  THEN LayerTime(TimelineOf(tls, name), fi, TotalFrames(tls))
  ELSE ""

\* animState.layerAllTimes[name] (<< >> for undefined)
LayerAllTimes(tls, name) ==
  IF name \in TimelineNames(tls) THEN TimelineOf(tls, name).times ELSE << >>

(***************************************************************************)
(* useWmsAnimation: the controls' index arithmetic.                        *)
(***************************************************************************)
StepForwardIndex(prev, total) == JsRem(prev + 1, total)
StepBackwardIndex(prev, total) ==
  IF prev = NaN THEN NaN ELSE JsRem(prev - 1 + total, total)
\* a seek that wraps around instead of clamping
SeekIndexWrapping(idx, total) == JsRem(idx + total, total)

SeekIndex(idx, total) == JsMax(0, JsMin(idx, total - 1))

\* useModelMapAnimation: seek
ModelSeekIndex(idx, total) == JsMax(0, JsMin(idx, total - 1))

(***************************************************************************)
(* useWmsAnimation: the playback timer effect, deps [playing, totalFrames, *)
(* frameIntervalMs].  The cleanup clears the timer intervalRef names, the  *)
(* body creates one when playing and totalFrames > 0.                      *)
(***************************************************************************)
FreeTimerId(tm) ==
  CHOOSE i \in 1..(Cardinality(tm) + 1) :
    /\ \A t \in tm : t.id # i
    /\ \A j \in 1..(i - 1) : \E t \in tm : t.id = j

\* a cleanup that clears nothing
ClearNoInterval(tm, ref) == tm

ClearInterval(tm, ref) == { t \in tm : t.id # ref }

\* a timer effect that depends on playing alone
PlaybackTimerDepsPlayingOnly(pOld, totOld, pNew, totNew) == pOld # pNew

PlaybackTimerDepsChanged(pOld, totOld, pNew, totNew) ==
  pOld # pNew \/ totOld # totNew

PlaybackTimerEffect(pOld, totOld, pNew, totNew, tm, ref) ==
  IF ~PlaybackTimerDepsChanged(pOld, totOld, pNew, totNew)
  THEN [timers |-> tm, intervalRef |-> ref]
  ELSE LET cleared == ClearInterval(tm, ref)
       IN IF pNew /\ totNew > 0
          THEN [timers |-> cleared \cup {[id |-> FreeTimerId(cleared), total |-> totNew]},
                intervalRef |-> FreeTimerId(cleared)]
          ELSE [timers |-> cleared, intervalRef |-> ref]

(***************************************************************************)
(* useWmsAnimation: fetchTimelines.                                        *)
(***************************************************************************)
\* a coordinator without the guard: every response counts as the latest
IsLatestFetchUnguarded(fetchId, ref) == TRUE

\* the stale-response guard: is this response still the latest request's?
IsLatestFetch(fetchId, ref) == fetchId = ref

\* ecResults of a resolve whose every fetchTimeDimension succeeded
EcResults(names, lists) ==
  [i \in 1..Len(names) |->
     [wmsLayer |-> names[i], times |-> SliceLast(lists[names[i]], MAX_ANIMATION_FRAMES)]]

\* combined: EC first (primary when present), HRRR last
Combined(names, hrrr, lists) ==
  IF hrrr
  THEN EcResults(names, lists)
       \o << [wmsLayer |-> HRRR_TIMELINE_KEY, times |-> HRRR_FORECAST_LAYERS] >>
  ELSE EcResults(names, lists)

\* an initial frame that is the last index whatever the primary is
InitialFrameIndexAlwaysLast(combined, fi) ==
  IF combined = << >> THEN fi ELSE Len(combined[1].times) - 1

\* initial frame: 0 when HRRR is primary, else the last index
InitialFrameIndex(combined, fi) ==
  IF combined = << >> THEN fi
  ELSE IF combined[1].wmsLayer = HRRR_TIMELINE_KEY THEN 0
  ELSE Len(combined[1].times) - 1

\* Promise.all rejects as soon as one fetchTimeDimension throws
ResolveFails(names, outcome) ==
  \E i \in 1..Len(names) : outcome[names[i]] # "ok"


(***************************************************************************)
(* MapPage: the overlay composer.                                          *)
(***************************************************************************)
RadarOverlayId(p) ==
  CASE p = "rain" -> "radar-rain"
    [] p = "snow" -> "radar-snow"
    [] OTHER -> "radar-precipType"

SatelliteOverlayId(p) ==
  CASE p = "visIR" -> "satellite-visIR"
    [] p = "natural" -> "satellite-natural"
    [] p = "cloudType" -> "satellite-cloudType"
    [] OTHER -> "satellite-sandwich"

OverlayIds ==
  { RadarOverlayId(p) : p \in RadarProductIds }
  \cup { SatelliteOverlayId(p) : p \in SatelliteProductIds }
  \cup { "lightning", "hrrr" }

\* opacities in percent
OverlayDef(l, rp, sp, tls, fi) ==
  CASE l = "radar" ->
         [id |-> RadarOverlayId(rp), url |-> EC_GEOMET_WMS_URL,
          layers |-> RADAR_PRODUCT_MAP[rp], opacity |-> 60,
          time |-> LayerTimes(tls, fi, RADAR_PRODUCT_MAP[rp]),
          allTimes |-> LayerAllTimes(tls, RADAR_PRODUCT_MAP[rp]),
          forecastMode |-> FALSE]
    [] l = "satellite" ->
         [id |-> SatelliteOverlayId(sp), url |-> EC_GEOMET_WMS_URL,
          layers |-> SATELLITE_PRODUCT_MAP[sp], opacity |-> 50,
          time |-> LayerTimes(tls, fi, SATELLITE_PRODUCT_MAP[sp]),
          allTimes |-> LayerAllTimes(tls, SATELLITE_PRODUCT_MAP[sp]),
          forecastMode |-> FALSE]
    [] l = "lightning" ->
         [id |-> "lightning", url |-> EC_GEOMET_WMS_URL,
          layers |-> EC_LAYERS_lightning, opacity |-> 80,
          time |-> LayerTimes(tls, fi, EC_LAYERS_lightning),
          allTimes |-> LayerAllTimes(tls, EC_LAYERS_lightning),
          forecastMode |-> FALSE]
    [] OTHER ->
         [id |-> "hrrr", url |-> IEM_HRRR_WMS_URL,
          layers |-> "refd_0000", opacity |-> 60,
          time |-> IF LayerTimes(tls, fi, HRRR_TIMELINE_KEY) = "" THEN "refd_0000"
                   ELSE LayerTimes(tls, fi, HRRR_TIMELINE_KEY),
          allTimes |-> LayerAllTimes(tls, HRRR_TIMELINE_KEY),
          forecastMode |-> TRUE]

\* the ids of the active layers: what overlayIdKey joins
ActiveLayerIds(lay) == { l \in MapLayerIds : lay[l] }

\* the overlays passed to WeatherMap, as a function of overlay id
Overlays(lay, rp, sp, tls, fi) ==
  LET defs == { OverlayDef(l, rp, sp, tls, fi) : l \in ActiveLayerIds(lay) }
  IN [id \in { d.id : d \in defs } |-> CHOOSE d \in defs : d.id = id]

CurrentOverlays == Overlays(layers, radarProduct, satelliteProduct, timelines, frameIndex)

(***************************************************************************)
(* MapPage: cache bookkeeping.                                             *)
(***************************************************************************)
RECURSIVE SumField(_, _, _)
SumField(cache, ids, f) ==
  IF ids = {} THEN 0
  ELSE LET k == CHOOSE x \in ids : TRUE
       IN cache[k][f] + SumField(cache, ids \ {k}, f)

TotalAll(cache) == SumField(cache, DOMAIN cache, "total")
LoadedAll(cache) == SumField(cache, DOMAIN cache, "loaded")

\* totalAll > 0 ? loadedAll / totalAll : 0
ProgressOf(cache) ==
  IF TotalAll(cache) > 0
  THEN [num |-> LoadedAll(cache), den |-> TotalAll(cache)]
  ELSE [num |-> 0, den |-> 1]

\* loadedAll >= totalAll && totalAll > 0
ReadyOf(cache) == LoadedAll(cache) >= TotalAll(cache) /\ TotalAll(cache) > 0

\* the keys the prune effect keeps: those found in overlayIdKey.split(',')
PruneKeeps(key, lay) == key \in ActiveLayerIds(lay)

\* the prune effect on a change of overlayIdKey
PruneCache(cache, lay) ==
  [k \in { x \in DOMAIN cache : PruneKeeps(x, lay) } |-> cache[k]]

\* cacheRef.current[overlayId] = { loaded, total }
PutCache(cache, id, loaded, total) ==
  [k \in DOMAIN cache \cup {id} |->
     IF k = id THEN [loaded |-> loaded, total |-> total] ELSE cache[k]]

(***************************************************************************)
(* WmsAnimatedLayer: the component of one overlay.  onMap holds the        *)
(* Leaflet layers of this overlay that are on the map, by registry key     *)
(* (StaticKey for the placeholder).                                        *)
(***************************************************************************)
StaticKey == "#static"
NoLayers == [k \in {} |-> 0]

MapAdd(m, k, a) == [x \in DOMAIN m \cup {k} |-> IF x = k THEN a ELSE m[x]]
MapRemove(m, ks) == [x \in DOMAIN m \ ks |-> m[x]]
MapSetOpacity(m, k, o) ==
  IF k \in DOMAIN m THEN [m EXCEPT ![k].opacity = o] ELSE m

FreshComp ==
  [mounted |-> FALSE,
   staticLayerRef |-> FALSE,       \* staticLayerRef.current is non-null
   frameLayersRef |-> {},          \* keys of the registry
   activeTimeRef |-> "",
   loadedTimesRef |-> {},
   batchTimer |-> FALSE,           \* a setTimeout(scheduleBatch) is pending
   cancelledRef |-> FALSE,
   idx |-> 0,                      \* frames created by the running effect
   runTimes |-> << >>,             \* allTimes captured by the running effect
   hasCleanup |-> FALSE,           \* the pre-cache effect returned its cleanup
   onMap |-> NoLayers,
   staticRemovals |-> 0,           \* removals of the placeholder by a load handler
   reported |-> 0]                 \* loaded of the last onCacheStatus of this run

\* effect 1: the static placeholder
StaticLayerName(ov) ==
  IF ov.forecastMode
  THEN (IF ov.allTimes # << >> THEN ov.allTimes[1] ELSE ov.layers)
  ELSE ov.layers

StaticEffect(ov, c) ==
  [c EXCEPT !.onMap = MapAdd(c.onMap, StaticKey,
                             [opacity |-> ov.opacity, layers |-> StaticLayerName(ov), time |-> ""]),
            !.staticLayerRef = TRUE]

StaticCleanup(c) ==
  [c EXCEPT !.onMap = MapRemove(c.onMap, {StaticKey}), !.staticLayerRef = FALSE]

\* an addFrame that sets the TIME parameter in either mode
AddFrameTimeAlways(ov, c, key) ==
  [c EXCEPT !.onMap = MapAdd(c.onMap, key,
                             [opacity |-> 0,
                              layers |-> IF ov.forecastMode THEN key ELSE ov.layers,
                              time |-> key]),
            !.frameLayersRef = c.frameLayersRef \cup {key}]

\* effect 2: addFrame
AddFrame(ov, c, key) ==
  [c EXCEPT !.onMap = MapAdd(c.onMap, key,
                             [opacity |-> 0,
                              layers |-> IF ov.forecastMode THEN key ELSE ov.layers,
                              time |-> IF ov.forecastMode THEN "" ELSE key]),
            !.frameLayersRef = c.frameLayersRef \cup {key}]

RECURSIVE AddFrames(_, _, _, _)
AddFrames(ov, c, from, to) ==
  IF from > to THEN c
  ELSE AddFrames(ov, AddFrame(ov, c, c.runTimes[from]), from + 1, to)

\* a scheduleBatch that creates every remaining frame at once
ScheduleBatchAll(ov, c) ==
  IF c.cancelledRef THEN c
  ELSE LET d == AddFrames(ov, c, c.idx + 1, Len(c.runTimes))
       IN [d EXCEPT !.idx = Len(c.runTimes), !.batchTimer = FALSE]

\* effect 2: scheduleBatch
ScheduleBatch(ov, c) ==
  IF c.cancelledRef THEN c
  ELSE LET end == Min2(c.idx + BATCH_SIZE, Len(c.runTimes))
           d == AddFrames(ov, c, c.idx + 1, end)
       IN [d EXCEPT !.idx = end, !.batchTimer = (end < Len(c.runTimes))]

\* effect 2: what the teardown at the start of the effect resets
PrecacheTeardown(c) ==
  [c EXCEPT !.batchTimer = FALSE,
            !.onMap = MapRemove(c.onMap, c.frameLayersRef),
            !.frameLayersRef = {},
            !.loadedTimesRef = {},
            !.activeTimeRef = "",
            !.cancelledRef = FALSE]

\* a cleanup that forgets the per-frame layers without removing them
PrecacheCleanupKeepsLayers(c) ==
  IF ~c.hasCleanup THEN c
  ELSE [c EXCEPT !.cancelledRef = TRUE,
                 !.batchTimer = FALSE,
                 !.frameLayersRef = {},
                 !.hasCleanup = FALSE]

\* a cleanup that leaves the pending batch timer alone
PrecacheCleanupKeepsTimer(c) ==
  IF ~c.hasCleanup THEN c
  ELSE [c EXCEPT !.cancelledRef = TRUE,
                 !.onMap = MapRemove(c.onMap, c.frameLayersRef),
                 !.frameLayersRef = {},
                 !.hasCleanup = FALSE]

\* effect 2: the cleanup returned by the effect
PrecacheCleanup(c) ==
  IF ~c.hasCleanup THEN c
  ELSE [c EXCEPT !.cancelledRef = TRUE,
                 !.batchTimer = FALSE,
                 !.onMap = MapRemove(c.onMap, c.frameLayersRef),
                 !.frameLayersRef = {},
                 !.hasCleanup = FALSE]

\* effect 2: the body
PrecacheEffect(ov, c) ==
  IF ov.allTimes = << >> THEN c
  ELSE ScheduleBatch(ov, [PrecacheTeardown(c) EXCEPT !.runTimes = ov.allTimes,
                                                    !.idx = 0,
                                                    !.reported = 0,
                                                    !.hasCleanup = TRUE])

\* a frame swap that shows the new frame without hiding the previous one
FrameSwapEffectNoHide(ov, c) ==
  IF ov.time = "" \/ ov.time = c.activeTimeRef THEN c
  ELSE IF c.staticLayerRef THEN c
  ELSE IF c.frameLayersRef = {} THEN c
  ELSE [c EXCEPT !.onMap = MapSetOpacity(c.onMap, ov.time, ov.opacity),
                 !.activeTimeRef = ov.time]

\* effect 3: instant frame swap via opacity toggle
FrameSwapEffect(ov, c) ==
  IF ov.time = "" \/ ov.time = c.activeTimeRef THEN c
  ELSE IF c.staticLayerRef THEN c
  ELSE IF c.frameLayersRef = {} THEN c
  ELSE LET hidden == IF c.activeTimeRef \in c.frameLayersRef
                     THEN MapSetOpacity(c.onMap, c.activeTimeRef, 0)
                     ELSE c.onMap
           shown == IF ov.time \in c.frameLayersRef
                    THEN MapSetOpacity(hidden, ov.time, ov.opacity)
                    ELSE hidden
       IN [c EXCEPT !.onMap = shown, !.activeTimeRef = ov.time]

\* a count of 'load' events instead of a count of distinct loaded frames
LoadedCountOfEvents(c, key) == Cardinality(c.loadedTimesRef) + 1

\* the 'load' handler of the per-frame layer of key, without its report
LoadedCount(c, key) == Cardinality(c.loadedTimesRef \cup {key})

CutoverDue(c, loaded, total) == loaded >= total /\ c.staticLayerRef

LoadHandler(ov, c, key) ==
  LET loaded == LoadedCount(c, key)
      total == Len(c.runTimes)
      c1 == [c EXCEPT !.loadedTimesRef = c.loadedTimesRef \cup {key},
                      !.reported = loaded]
  IN IF CutoverDue(c1, loaded, total)
     THEN LET c2 == [c1 EXCEPT !.onMap = MapRemove(c1.onMap, {StaticKey}),
                               !.staticLayerRef = FALSE,
                               !.staticRemovals = c1.staticRemovals + 1]
          IN IF ov.time # ""
             THEN [c2 EXCEPT !.onMap = IF ov.time \in c2.frameLayersRef
                                       THEN MapSetOpacity(c2.onMap, ov.time, ov.opacity)
                                       ELSE c2.onMap,
                             !.activeTimeRef = ov.time]
             ELSE c2
     ELSE c1

\* mount: fresh refs, then effects 1, 2, 3 in order
MountComp(ov, c) ==
  FrameSwapEffect(ov,
    PrecacheEffect(ov,
      StaticEffect(ov, [FreshComp EXCEPT !.mounted = TRUE, !.onMap = c.onMap])))

\* unmount: the cleanups of effects 1 and 2; the refs are dropped unless a
\* pending timeout still holds the effect's closure
UnmountComp(c) ==
  LET d == PrecacheCleanup(StaticCleanup(c))
  IN IF d.batchTimer
     THEN [d EXCEPT !.mounted = FALSE]
     ELSE [FreshComp EXCEPT !.onMap = d.onMap]

\* a pre-cache effect that re-runs on every render
PrecacheDepsAlways(ovOld, ovNew) == TRUE

\* re-render of a mounted component: each effect whose deps changed
PrecacheDepsChanged(ovOld, ovNew) == ovOld.allTimes # ovNew.allTimes
FrameSwapDepsChanged(ovOld, ovNew) == ovOld.time # ovNew.time

UpdateComp(ovOld, ovNew, c) ==
  LET c1 == IF PrecacheDepsChanged(ovOld, ovNew)
            THEN PrecacheEffect(ovNew, PrecacheCleanup(c))
            ELSE c
  IN IF FrameSwapDepsChanged(ovOld, ovNew) THEN FrameSwapEffect(ovNew, c1) ELSE c1

\* the commit of WeatherMap's children after a render with overlays ovsNew
CommitChildren(ovsOld, ovsNew, cs) ==
  [id \in OverlayIds |->
     IF id \in DOMAIN ovsNew
     THEN IF cs[id].mounted
          THEN UpdateComp(ovsOld[id], ovsNew[id], cs[id])
          ELSE MountComp(ovsNew[id], cs[id])
     ELSE IF cs[id].mounted THEN UnmountComp(cs[id]) ELSE cs[id]]


(***************************************************************************)
(* ModelMapViewer: the overlay it passes to WeatherMap, for two of the     *)
(* models and three of the products of MODEL_MAP_DEFS; extraParams is a    *)
(* set of [name, value].                                                   *)
(***************************************************************************)
ModelOverlay(model, param, allTimes, currentTime) ==
  LET ucar == model = "gfs"
      name == CASE ucar /\ param = "temperature" -> "Temperature_height_above_ground"
                [] ucar /\ param = "precipitation" ->
                     "Total_precipitation_surface_Mixed_intervals_Accumulation"
                [] ucar /\ param = "wind" -> "Wind_speed_height_above_ground"
                [] ~ucar /\ param = "temperature" -> "HRDPS.CONTINENTAL_TT"
                [] ~ucar /\ param = "precipitation" -> "HRDPS.CONTINENTAL_PR"
                [] OTHER -> "HRDPS.CONTINENTAL_WSPD"
      extra == CASE ucar /\ param = "temperature" -> {[name |-> "ELEVATION", value |-> "2"]}
                 [] ucar /\ param = "wind" -> {[name |-> "ELEVATION", value |-> "10"]}
                 [] OTHER -> {}
  IN [id |-> << "model", model, param >>,
      url |-> IF ucar
              THEN "https://thredds.ucar.edu/thredds/wms/grib/NCEP/GFS/Global_0p25deg/Best"
              ELSE EC_GEOMET_WMS_URL,
      layers |-> name, opacity |-> 70, time |-> currentTime, allTimes |-> allTimes,
      forecastMode |-> FALSE, extraParams |-> extra]

\* the overlays of the models page: ModelMapViewer passes one only once the
\* time axis is there
ModelOverlays ==
  UNION { { ModelOverlay(m, p, Window(1, n), TimeAxis[i]) :
              m \in {"hrdps", "gfs"}, p \in {"temperature", "precipitation", "wind"},
              i \in 1..n } : n \in 1..MaxModelFrames }

\* the WMS parameters of the tile requests of a layer: what the options given
\* to L.tileLayer.wms hold besides the tile layer's own options
RequestParams(layer) ==
  {[name |-> "LAYERS", value |-> layer.layers]}
  \cup (IF layer.time # "" THEN {[name |-> "TIME", value |-> layer.time]} ELSE {})

(***************************************************************************)
(* Init: MapPage mounted with DEFAULT_LAYERS (radar on), the fetch effect  *)
(* has issued the first resolve, the radar overlay shows its placeholder.  *)
(***************************************************************************)
NoEvent == [kind |-> "none", names |-> << >>, hrrr |-> FALSE, failed |-> {}]
FrameEvent(kind) == [NoEvent EXCEPT !.kind = kind]
\* "teardown" when the step unmounted a component whose batch timer was pending
TeardownEvent(csOld, csNew) ==
  IF \E id \in OverlayIds :
       csOld[id].mounted /\ csOld[id].batchTimer /\ ~csNew[id].mounted
  THEN FrameEvent("teardown")
  ELSE NoEvent

InitLayers == [l \in MapLayerIds |-> l = "radar"]

NoCall == [fn |-> "none"]
NoRet == << [form |-> "none"] >>

\* MapPage right after its mount
InitMapPage ==
  /\ pageMounted = TRUE
  /\ layers = InitLayers
  /\ radarProduct = "rain"
  /\ satelliteProduct = "visIR"
  /\ timelines = << >>
  /\ frameIndex = 0
  /\ playing = FALSE
  /\ loading = TRUE
  /\ fetchRef = 1
  /\ inflight = {[fetchId |-> 1,
                  names |-> ActiveWmsLayerNames(InitLayers, "rain", "visIR"),
                  hrrr |-> FALSE]}
  /\ timers = {}
  /\ intervalRef = 0
  /\ comp = CommitChildren(Overlays([l \in MapLayerIds |-> FALSE], "rain", "visIR", << >>, 0),
                           Overlays(InitLayers, "rain", "visIR", << >>, 0),
                           [id \in OverlayIds |-> FreshComp])
  /\ cacheRef = [k \in {} |-> 0]
  /\ cacheProgress = [num |-> 0, den |-> 1]
  /\ cacheReady = FALSE
  /\ last = NoEvent

Init ==
  /\ call = NoCall
  /\ ret = NoRet
  /\ InitMapPage

(***************************************************************************)
(* The render and commit that follow a state change: the playback timer    *)
(* effect, the effects of WeatherMap's children, MapPage's prune effect.   *)
(***************************************************************************)
RenderHook(tlsN, pN) ==
  LET te == PlaybackTimerEffect(playing, TotalFrames(timelines), pN, TotalFrames(tlsN),
                                timers, intervalRef)
  IN /\ timers' = te.timers
     /\ intervalRef' = te.intervalRef

RenderChildren(layN, rpN, spN, tlsN, fiN) ==
  comp' = CommitChildren(CurrentOverlays, Overlays(layN, rpN, spN, tlsN, fiN), comp)

PruneEffect(layN) ==
  IF ActiveLayerIds(layN) # ActiveLayerIds(layers)
  THEN /\ cacheRef' = PruneCache(cacheRef, layN)
       /\ cacheProgress' = ProgressOf(PruneCache(cacheRef, layN))
       /\ cacheReady' = ReadyOf(PruneCache(cacheRef, layN))
  ELSE UNCHANGED << cacheRef, cacheProgress, cacheReady >>

(***************************************************************************)
(* fetchTimelines up to its await, for the selection (layN, rpN, spN);     *)
(* stopPlayback is the setPlaying(false) of the effect that calls it.      *)
(***************************************************************************)
\* a fetchTimelines that stops playback whoever calls it
PlayingAfterFetchStopped(nothing, stopPlayback, p) == FALSE

\* a fetchTimelines and an effect that leave playback as it is
PlayingAfterFetchKept(nothing, stopPlayback, p) == p

\* playing after the call: setPlaying(false) in the nothing-branch and in the
\* effect that follows a change of the layers
PlayingAfterFetch(nothing, stopPlayback, p) ==
  IF nothing \/ stopPlayback THEN FALSE ELSE p

FetchTimelines(layN, rpN, spN, stopPlayback) ==
  LET names == ActiveWmsLayerNames(layN, rpN, spN)
      hrrr == layN["hrrr"]
      nothing == names = << >> /\ ~hrrr
      tlsN == IF nothing THEN << >> ELSE timelines
      fiN == IF nothing THEN 0 ELSE frameIndex
      pN == PlayingAfterFetch(nothing, stopPlayback, playing)
  IN /\ pageMounted
     /\ nothing \/ fetchRef < MaxFetch
     /\ UNCHANGED << call, ret, pageMounted >>
     /\ timelines' = tlsN
     /\ frameIndex' = fiN
     /\ playing' = pN
     /\ IF nothing
        THEN UNCHANGED << fetchRef, loading, inflight >>
        ELSE /\ fetchRef' = fetchRef + 1
             /\ loading' = TRUE
             /\ inflight' = inflight \cup
                  {[fetchId |-> fetchRef + 1, names |-> names, hrrr |-> hrrr]}
     /\ RenderHook(tlsN, pN)
     /\ RenderChildren(layN, rpN, spN, tlsN, fiN)
     /\ PruneEffect(layN)
     /\ last' = TeardownEvent(comp, comp')

(***************************************************************************)
(* MapPage: selection changes.                                             *)
(***************************************************************************)
ToggleLayer(id) ==
  LET layN == [layers EXCEPT ![id] = ~layers[id]]
  IN /\ layers' = layN
     /\ UNCHANGED << radarProduct, satelliteProduct >>
     /\ FetchTimelines(layN, radarProduct, satelliteProduct, TRUE)

SetRadarProduct(p) ==
  /\ layers["radar"]
  /\ p # radarProduct
  /\ radarProduct' = p
  /\ UNCHANGED << layers, satelliteProduct >>
  /\ FetchTimelines(layers, p, satelliteProduct, TRUE)

SetSatelliteProduct(p) ==
  /\ layers["satellite"]
  /\ p # satelliteProduct
  /\ satelliteProduct' = p
  /\ UNCHANGED << layers, radarProduct >>
  /\ FetchTimelines(layers, radarProduct, p, TRUE)

(***************************************************************************)
(* useWmsAnimation: the part of fetchTimelines after its await.  The       *)
(* request r completes; outcome gives, per layer, how fetchTimeDimension   *)
(* ended, lists the time axis it returned.                                 *)
(***************************************************************************)
ResponseApplies(r, outcome) ==
  ~ResolveFails(r.names, outcome) /\ IsLatestFetch(r.fetchId, fetchRef)

Response(r, outcome, lists) ==
  LET combined == Combined(r.names, r.hrrr, lists)
      tlsN == IF ResponseApplies(r, outcome) THEN combined ELSE timelines
      fiN == IF ResponseApplies(r, outcome)
             THEN InitialFrameIndex(combined, frameIndex) ELSE frameIndex
  IN /\ pageMounted
     /\ r \in inflight
     /\ inflight' = inflight \ {r}
     /\ UNCHANGED << call, ret, pageMounted >>
     /\ timelines' = tlsN
     /\ frameIndex' = fiN
     /\ loading' = IF IsLatestFetch(r.fetchId, fetchRef) THEN FALSE ELSE loading
     /\ UNCHANGED << playing, fetchRef, layers, radarProduct, satelliteProduct >>
     /\ RenderHook(tlsN, playing)
     /\ RenderChildren(layers, radarProduct, satelliteProduct, tlsN, fiN)
     /\ PruneEffect(layers)
     /\ last' = IF ~IsLatestFetch(r.fetchId, fetchRef) THEN FrameEvent("stale")
                ELSE IF ResolveFails(r.names, outcome)
                THEN [kind |-> "failed", names |-> r.names, hrrr |-> r.hrrr,
                      failed |-> { n \in Range(r.names) : outcome[n] # "ok" }]
                ELSE NoEvent

\* the time axes a response can carry; a response that is discarded or failed
\* is represented by the empty axes, its content being never read
NoLists(names) == [n \in Range(names) |-> << >>]
ResponseLists(r) ==
  IF IsLatestFetch(r.fetchId, fetchRef)
  THEN [Range(r.names) -> ServerTimeLists]
  ELSE {NoLists(r.names)}

ResponseOk(r) ==
  \E lists \in ResponseLists(r) :
    Response(r, [n \in Range(r.names) |-> "ok"], lists)

ResponseOkLong(r) ==
  /\ IsLatestFetch(r.fetchId, fetchRef)
  /\ \E lists \in [Range(r.names) -> LongTimeLists] :
       Response(r, [n \in Range(r.names) |-> "ok"], lists)

ResponseFailed(r) ==
  \E outcome \in [Range(r.names) -> FetchOutcomes] :
    /\ ResolveFails(r.names, outcome)
    /\ Response(r, outcome, NoLists(r.names))

(***************************************************************************)
(* useWmsAnimation: controls and the playback timer.                       *)
(***************************************************************************)
SetFrameIndex(fiN, kind) ==
  /\ pageMounted
  /\ frameIndex' = fiN
  /\ last' = FrameEvent(kind)
  /\ UNCHANGED << call, ret, pageMounted, timelines, playing, loading, fetchRef, inflight, timers,
                  intervalRef, layers, radarProduct, satelliteProduct, cacheRef, cacheProgress, cacheReady >>
  /\ RenderChildren(layers, radarProduct, satelliteProduct, timelines, fiN)

SetPlaying(pN) ==
  /\ pageMounted
  /\ playing' = pN
  /\ last' = NoEvent
  /\ UNCHANGED << call, ret, pageMounted, timelines, frameIndex, loading, fetchRef, inflight,
                  layers, radarProduct, satelliteProduct, cacheRef, cacheProgress, cacheReady,
                  comp >>
  /\ RenderHook(timelines, pN)

Play == SetPlaying(TRUE)
Pause == SetPlaying(FALSE)
Toggle == SetPlaying(~playing)

Seek(i) == SetFrameIndex(SeekIndex(i, TotalFrames(timelines)), "none")
StepForward ==
  SetFrameIndex(StepForwardIndex(frameIndex, TotalFrames(timelines)), "stepForward")
StepBackward ==
  SetFrameIndex(StepBackwardIndex(frameIndex, TotalFrames(timelines)), "stepBackward")

Refresh ==
  /\ UNCHANGED << layers, radarProduct, satelliteProduct >>
  /\ FetchTimelines(layers, radarProduct, satelliteProduct, FALSE)

\* the callback of a live interval timer, with the totalFrames it captured
Tick(t) ==
  /\ t \in timers
  /\ SetFrameIndex(StepForwardIndex(frameIndex, t.total), "tick")

(***************************************************************************)
(* WmsAnimatedLayer: asynchronous events.                                  *)
(***************************************************************************)
\* Leaflet fires 'load' on a per-frame layer that is on the map
LoadEvent(id, key) ==
  /\ comp[id].mounted
  /\ key \in DOMAIN comp[id].onMap \ {StaticKey}
  /\ LET c == LoadHandler(CurrentOverlays[id], comp[id], key)
         cache == PutCache(cacheRef, id, c.reported, Len(comp[id].runTimes))
     IN /\ comp' = [comp EXCEPT ![id] = c]
        /\ cacheRef' = cache
        /\ cacheProgress' = ProgressOf(cache)
        /\ cacheReady' = ReadyOf(cache)
  /\ UNCHANGED << call, ret, pageMounted, layers, radarProduct, satelliteProduct, timelines, frameIndex,
                  playing, loading, fetchRef, inflight, timers, intervalRef >>
  /\ last' = NoEvent

\* the pending setTimeout(scheduleBatch, 150) fires
BatchTimer(id) ==
  /\ comp[id].batchTimer
  /\ comp' = [comp EXCEPT ![id] =
                ScheduleBatch(CurrentOverlays[id], [comp[id] EXCEPT !.batchTimer = FALSE])]
  /\ UNCHANGED << call, ret, pageMounted, layers, radarProduct, satelliteProduct, timelines, frameIndex,
                  playing, loading, fetchRef, inflight, timers, intervalRef,
                  cacheRef, cacheProgress, cacheReady >>
  /\ last' = NoEvent

(***************************************************************************)
(* MapPage is unmounted: the cleanups of the playback timer effect and of  *)
(* every WmsAnimatedLayer run; state updates made later are dropped.       *)
(***************************************************************************)
Unmount ==
  /\ pageMounted
  /\ pageMounted' = FALSE
  /\ UNCHANGED << call, ret >>
  /\ timers' = ClearInterval(timers, intervalRef)
  /\ comp' = [id \in OverlayIds |->
                IF comp[id].mounted THEN UnmountComp(comp[id]) ELSE comp[id]]
  /\ UNCHANGED << layers, radarProduct, satelliteProduct, cacheRef, cacheReady, cacheProgress,
                  timelines, frameIndex, playing, loading, fetchRef, inflight, intervalRef >>
  /\ last' = TeardownEvent(comp, comp')

\* a resolve completes after the unmount: its setState calls have no effect
LateResponse(r) ==
  /\ ~pageMounted
  /\ r \in inflight
  /\ inflight' = inflight \ {r}
  /\ UNCHANGED << call, ret, pageMounted, layers, radarProduct, satelliteProduct, cacheRef, cacheReady,
                  cacheProgress, timelines, frameIndex, playing, loading, fetchRef, timers,
                  intervalRef, comp >>
  /\ last' = NoEvent

(***************************************************************************)
(* Specifications.                                                         *)
(***************************************************************************)
\* the indices passed to seek: those around both ends of the valid range
SeekInputs ==
  ((0 - SeekSlack)..SeekSlack)
  \cup ((TotalFrames(timelines) - 1 - SeekSlack)..(TotalFrames(timelines) - 1 + SeekSlack))

\* the whole program
Next ==
  \/ \E id \in MapLayerIds : ToggleLayer(id)
  \/ \E p \in RadarProductIds : SetRadarProduct(p)
  \/ \E p \in SatelliteProductIds : SetSatelliteProduct(p)
  \/ \E r \in inflight : ResponseOk(r)
  \/ \E r \in inflight : ResponseFailed(r)
  \/ Play
  \/ Pause
  \/ Toggle
  \/ \E i \in SeekInputs : Seek(i)
  \/ StepForward
  \/ StepBackward
  \/ Refresh
  \/ \E t \in timers : Tick(t)
  \/ \E id \in OverlayIds : \E key \in Range(TimeAxis) \cup Range(HRRR_FORECAST_LAYERS) :
       LoadEvent(id, key)
  \/ \E id \in OverlayIds : BatchTimer(id)
  \/ Unmount
  \/ \E r \in inflight : LateResponse(r)

Spec == Init /\ [][Next]_vars

\* the timeline coordinator: satellite stays off and no tile finishes loading
NextAnim ==
  \/ \E id \in AnimLayerIds : ToggleLayer(id)
  \/ \E p \in RadarProductIds : SetRadarProduct(p)
  \/ \E r \in inflight : ResponseOk(r)
  \/ \E r \in inflight : ResponseFailed(r)
  \/ Play
  \/ Pause
  \/ Toggle
  \/ \E i \in SeekInputs : Seek(i)
  \/ StepForward
  \/ StepBackward
  \/ Refresh
  \/ \E t \in timers : Tick(t)

SpecAnim == Init /\ [][NextAnim]_vars

\* the pre-cache of the radar and lightning overlays: satellite and HRRR stay
\* off and playback is never started
NextCache ==
  \/ \E id \in CacheLayerIds : ToggleLayer(id)
  \/ \E p \in RadarProductIds : SetRadarProduct(p)
  \/ \E r \in inflight : ResponseOk(r)
  \/ StepForward
  \/ \E id \in OverlayIds : \E key \in Range(TimeAxis) : LoadEvent(id, key)

SpecCache == Init /\ [][NextCache]_vars

\* the life cycle of the timers: radar and HRRR are toggled, playback runs,
\* the HRRR frames are created batch by batch, and MapPage is unmounted
NextLife ==
  \/ \E id \in LifeLayerIds : ToggleLayer(id)
  \/ \E r \in inflight : ResponseOk(r)
  \/ Play
  \/ Pause
  \/ \E t \in timers : Tick(t)
  \/ \E id \in OverlayIds : BatchTimer(id)
  \/ Unmount
  \/ \E r \in inflight : LateResponse(r)

SpecLife == Init /\ [][NextLife]_vars

\* frame swaps while a replaced list is still being created batch by batch:
\* radar alone, refreshed, with short and long responses
NextSwap ==
  \/ \E r \in inflight : ResponseOk(r)
  \/ \E r \in inflight : ResponseOkLong(r)
  \/ Refresh
  \/ StepForward
  \/ \E id \in OverlayIds : \E key \in Range(TimeAxis) : LoadEvent(id, key)
  \/ \E id \in OverlayIds : BatchTimer(id)

SpecSwap == Init /\ [][NextSwap]_vars

\* frame changes by the controls and by the playback timer while radar and
\* HRRR frames are created batch by batch and radar frames finish loading
NextFrame ==
  \/ \E id \in LifeLayerIds : ToggleLayer(id)
  \/ \E r \in inflight : ResponseOk(r)
  \/ Play
  \/ \E t \in timers : Tick(t)
  \/ StepForward
  \/ StepBackward
  \/ \E id \in OverlayIds : \E key \in Range(TimeAxis) : LoadEvent(id, key)
  \/ \E id \in OverlayIds : BatchTimer(id)

SpecFrame == Init /\ [][NextFrame]_vars

\* expandInterval on its own: one call with drawn arguments, then its return
InitExpand ==
  /\ call \in { [fn |-> "expandInterval", parts |-> << s, e, d >>] :
                  s \in DateTokens, e \in DateTokens, d \in DurationTokens }
  /\ ret = NoRet
  /\ InitMapPage

ExpandIntervalReturns ==
  /\ call.fn = "expandInterval"
  /\ ret = NoRet
  /\ ret' = ExpandInterval(call.parts)
  /\ UNCHANGED << call, pageMounted, layers, radarProduct, satelliteProduct, cacheRef,
                  cacheReady, cacheProgress, timelines, frameIndex, playing, loading,
                  fetchRef, inflight, timers, intervalRef, comp, last >>

NextExpand == ExpandIntervalReturns

SpecExpand == InitExpand /\ [][NextExpand]_vars

\* expandTimeDimension on its own: one call with a drawn string, then its return
InitDimension ==
  /\ call \in { [fn |-> "expandTimeDimension", dim |-> d] : d \in DimensionStrings }
  /\ ret = NoRet
  /\ InitMapPage

ExpandTimeDimensionReturns ==
  /\ call.fn = "expandTimeDimension"
  /\ ret = NoRet
  /\ ret' = ExpandTimeDimension(call.dim)
  /\ UNCHANGED << call, pageMounted, layers, radarProduct, satelliteProduct, cacheRef,
                  cacheReady, cacheProgress, timelines, frameIndex, playing, loading,
                  fetchRef, inflight, timers, intervalRef, comp, last >>

NextDimension == ExpandTimeDimensionReturns

SpecDimension == InitDimension /\ [][NextDimension]_vars

(***************************************************************************)
(* WmsAnimatedLayer on its own: one overlay of the models page is mounted  *)
(* and never re-rendered.  call holds the overlay, ret the component with  *)
(* the number of scheduleBatch calls and of pending batch timers so far.   *)
(* A timer that was set and not cleared fires: weak fairness.              *)
(***************************************************************************)
InitLayer ==
  /\ call \in { [fn |-> "WmsAnimatedLayer", overlay |-> ov] : ov \in ModelOverlays }
  /\ ret = NoRet
  /\ InitMapPage

LayerMounts ==
  /\ call.fn = "WmsAnimatedLayer"
  /\ ret = NoRet
  /\ LET c == MountComp(call.overlay, FreshComp)
     IN ret' = << [comp |-> c, batches |-> 1, timers |-> IF c.batchTimer THEN 1 ELSE 0] >>
  /\ UNCHANGED << call, pageMounted, layers, radarProduct, satelliteProduct, cacheRef,
                  cacheReady, cacheProgress, timelines, frameIndex, playing, loading,
                  fetchRef, inflight, timers, intervalRef, comp, last >>

LayerBatchTimer ==
  /\ call.fn = "WmsAnimatedLayer"
  /\ ret # NoRet
  /\ ret[1].comp.batchTimer
  /\ LET d == ScheduleBatch(call.overlay, [ret[1].comp EXCEPT !.batchTimer = FALSE])
     IN ret' = << [comp |-> d, batches |-> ret[1].batches + 1,
                   timers |-> (ret[1].timers - 1) + (IF d.batchTimer THEN 1 ELSE 0)] >>
  /\ UNCHANGED << call, pageMounted, layers, radarProduct, satelliteProduct, cacheRef,
                  cacheReady, cacheProgress, timelines, frameIndex, playing, loading,
                  fetchRef, inflight, timers, intervalRef, comp, last >>

NextLayer == LayerMounts \/ LayerBatchTimer

SpecLayer == InitLayer /\ [][NextLayer]_vars /\ WF_vars(LayerBatchTimer)

\* the proportional mapping: radar (primary) and lightning are active and the
\* result of their resolve has been applied, with P and S frames; the frame
\* index is then moved by the controls
InitLayerTime ==
  \E P \in 0..MaxPrimary : \E S \in 0..MaxSecondary :
    LET lay == [l \in MapLayerIds |-> l \in {"radar", "lightning"}]
        tls == << [wmsLayer |-> RADAR_PRODUCT_MAP["rain"], times |-> Window(1, P)],
                  [wmsLayer |-> EC_LAYERS_lightning, times |-> Window(1, S)] >>
        fi == InitialFrameIndex(tls, 0)
        none == [l \in MapLayerIds |-> FALSE]
        mounted == CommitChildren(Overlays(none, "rain", "visIR", << >>, 0),
                                  Overlays(lay, "rain", "visIR", << >>, 0),
                                  [id \in OverlayIds |-> FreshComp])
    IN /\ call = NoCall
       /\ ret = NoRet
       /\ pageMounted = TRUE
       /\ layers = lay
       /\ radarProduct = "rain"
       /\ satelliteProduct = "visIR"
       /\ timelines = tls
       /\ frameIndex = fi
       /\ playing = FALSE
       /\ loading = FALSE
       /\ fetchRef = 2
       /\ inflight = {}
       /\ timers = {}
       /\ intervalRef = 0
       /\ comp = CommitChildren(Overlays(lay, "rain", "visIR", << >>, 0),
                                Overlays(lay, "rain", "visIR", tls, fi),
                                mounted)
       /\ cacheRef = [k \in {} |-> 0]
       /\ cacheProgress = [num |-> 0, den |-> 1]
       /\ cacheReady = FALSE
       /\ last = NoEvent

NextLayerTime ==
  \/ \E i \in SeekInputs : Seek(i)
  \/ StepForward
  \/ StepBackward

SpecLayerTime == InitLayerTime /\ [][NextLayerTime]_vars

(***************************************************************************)
(* Properties of the interval expansion.                                   *)
(***************************************************************************)
\* the call's interval is valid: both ends are dates, step > 0, start <= end
ValidInterval ==
  /\ call.fn = "expandInterval"
  /\ ParseDate(call.parts[1]) # NaN
  /\ ParseDate(call.parts[2]) # NaN
  /\ ParseDuration(call.parts[3]) > 0
  /\ ParseDate(call.parts[1]) <= ParseDate(call.parts[2])

\* ret is start, start + step, start + 2 * step, ... in the normalised form
IsStepSequence ==
  \A k \in 1..Len(ret) :
    ret[k] = [ms |-> ParseDate(call.parts[1]) + (k - 1) * ParseDuration(call.parts[3]),
              form |-> "Z"]

\* C20 as stated: the expansion of a valid interval is start, start + step,
\* ... with first element start and last element end.
C20_ExpansionEndsAtEnd ==
  (ValidInterval /\ ret # NoRet) =>
    /\ IsStepSequence
    /\ Len(ret) >= 1
    /\ ret[1].ms = ParseDate(call.parts[1])
    /\ ret[Len(ret)].ms = ParseDate(call.parts[2])

\* C20 amended: the expansion of a valid interval is start, start + step, ...
\* up to the last such instant that is not after end: its first element is
\* start, and its last element is end exactly when end - start is a multiple
\* of step; 14:00Z/15:00Z/PT30M yields 14:00Z, 14:30Z, 15:00Z.
C20_ExpansionInclusive ==
  (ValidInterval /\ ret # NoRet) =>
    LET start == ParseDate(call.parts[1])
        end == ParseDate(call.parts[2])
        step == ParseDuration(call.parts[3])
    IN /\ IsStepSequence
       /\ Len(ret) = (end - start) \div step + 1
       /\ ret[1].ms = start
       /\ ret[Len(ret)].ms <= end
       /\ end < ret[Len(ret)].ms + step
       /\ ret[Len(ret)].ms = end <=> (end - start) % step = 0
       /\ (start = 0 /\ end = 3600000 /\ step = 1800000) =>
            ret = << [ms |-> 0, form |-> "Z"], [ms |-> 1800000, form |-> "Z"],
                     [ms |-> 3600000, form |-> "Z"] >>

\* the interval of one hour in steps of 30 minutes has been expanded into
\* three timestamps, the last one being its end
C20_Witness ==
  /\ ValidInterval
  /\ call.parts[3] = [kind |-> "PT", h |-> 0, m |-> 30, s |-> 0]
  /\ ParseDate(call.parts[2]) - ParseDate(call.parts[1]) = 3600000
  /\ Len(ret) = 3
  /\ ret[3].ms = ParseDate(call.parts[2])

(***************************************************************************)
(* Properties of the expansion of a dimension string.                      *)
(***************************************************************************)
\* what segment seg contributes on its own
ContributionOf(seg) == IF Len(seg) = 1 THEN seg ELSE ExpandInterval(seg)

\* the place of the first occurrence of x among the contributions of segs,
\* as segment number * Width + position within the segment's contribution
FirstPlace(segs, x) ==
  LET Width == 1 + Len(ExpandSegments(segs))
      occ == { pl \in 1..((Len(segs) + 1) * Width) :
                 \E k \in 1..Len(segs) :
                   \E m \in 1..Len(ContributionOf(segs[k])) :
                     pl = k * Width + m /\ ContributionOf(segs[k])[m] = x }
  IN CHOOSE pl \in occ : \A q \in occ : pl <= q

\* C21: expandTimeDimension treats each comma-separated segment on its own
\* (an interval when it contains '/', a literal otherwise); its result holds
\* exactly the elements the segments contribute, none of them twice, in the
\* order of their first occurrence in segment order; a timestamp contributed
\* by both a literal and an interval appears exactly once.
C21_DedupKeepsFirstSeenOrder ==
  (call.fn = "expandTimeDimension" /\ ret # NoRet) =>
    LET segs == SplitSegments(call.dim)
    IN /\ \A i, j \in 1..Len(ret) : i # j => ret[i] # ret[j]
       /\ Range(ret) = UNION { Range(ContributionOf(segs[k])) : k \in 1..Len(segs) }
       /\ \A i, j \in 1..Len(ret) :
            i < j => FirstPlace(segs, ret[i]) < FirstPlace(segs, ret[j])
       /\ \A k \in 1..Len(segs) :
            Len(segs[k]) = 1 => (segs[k][1] \in Range(ret) /\ segs[k][1].form # "empty")
       /\ call.dim = << << [ms |-> 0, form |-> "Z"] >>,
                        << [ms |-> 0, form |-> "Z"], [ms |-> 900000, form |-> "Z"],
                           [kind |-> "PT", h |-> 0, m |-> 15, s |-> 0] >> >>
            => ret = << [ms |-> 0, form |-> "Z"], [ms |-> 900000, form |-> "Z"] >>

\* a literal followed by an interval that starts at the same timestamp has
\* been expanded: the timestamp is there once, first
C21_Witness ==
  /\ call.fn = "expandTimeDimension"
  /\ Len(call.dim) = 2
  /\ Len(call.dim[1]) = 1
  /\ Len(call.dim[2]) = 3
  /\ call.dim[1][1] = call.dim[2][1]
  /\ Len(ret) = 2
  /\ ret[1] = call.dim[1][1]
  /\ ret[2].ms = 900000

\* a three-part segment whose start or end is no date or whose step is zero
\* or of unrecognised syntax (which includes a step written with a sign)
IsMalformedInterval(seg) ==
  /\ Len(seg) = 3
  /\ \/ seg[1].form \in {"invalid", "empty"}
     \/ seg[2].form \in {"invalid", "empty"}
     \/ seg[3].kind = "bad"
     \/ seg[3].kind = "PT" /\ seg[3].h = 0 /\ seg[3].m = 0 /\ seg[3].s = 0
     \/ seg[3].kind = "PD" /\ seg[3].d = 0

\* no call of toISOString has thrown
NothingThrown == \A i \in 1..Len(ret) : ret[i].form # "RangeError"

IsTimestamp(x) == x.form \in {"Z", ".000Z", ".mmmZ", "padded"}

\* C28: every timestamp the resolver returns, from an interval or from a
\* literal list element, is in the second-precision form ending in Z, so an
\* instant written with and without '.000' in one dimension string appears
\* once in the result.
C28_ResultNormalized ==
  (call.fn = "expandTimeDimension" /\ ret # NoRet) =>
    /\ \A i \in 1..Len(ret) : IsTimestamp(ret[i]) => ret[i].form = "Z"
    /\ \A i, j \in 1..Len(ret) :
         (IsTimestamp(ret[i]) /\ IsTimestamp(ret[j]) /\ ret[i].ms = ret[j].ms) => i = j

(***************************************************************************)
(* Properties of the timeline coordinator's resolve.                       *)
(***************************************************************************)
\* the layer names of a timelines value, in order
TimelineNameSeq(tls) == [i \in 1..Len(tls) |-> tls[i].wmsLayer]
RequestNameSeq(r) == r.names \o (IF r.hrrr THEN << HRRR_TIMELINE_KEY >> ELSE << >>)

\* C1: a response of a resolve that is no longer the latest one issued changes
\* neither timelines nor frameIndex nor loading, whenever it arrives; the
\* response of the latest resolve ends loading, and when it succeeds the
\* timelines are those of its own layers and frameIndex is its initial frame.
C1_StaleResponseDropped ==
  [][\A r \in inflight :
       r \notin inflight' =>
         /\ r.fetchId # fetchRef => UNCHANGED << timelines, frameIndex, loading >>
         /\ r.fetchId = fetchRef =>
              /\ loading' = FALSE
              /\ timelines' # timelines =>
                   /\ TimelineNameSeq(timelines') = RequestNameSeq(r)
                   /\ frameIndex' = InitialFrameIndex(timelines', frameIndex)]_vars

\* a later resolve has been applied and the response of an earlier one has
\* just arrived
C1_Witness ==
  /\ last.kind = "stale"
  /\ fetchRef >= 2
  /\ ~loading
  /\ inflight = {}
  /\ TotalFrames(timelines) >= 1

\* C8: when several overlays are active and the resolve of one of them fails,
\* the timelines of the others are still populated.
C8_OtherOverlaysStillPopulated ==
  (last.kind = "failed" /\ Len(RequestNameSeq(last)) >= 2) =>
    \A n \in Range(RequestNameSeq(last)) \ last.failed : n \in TimelineNames(timelines)

\* C9: after the resolve for a layer fails the coordinator holds zero frames
\* for that layer, and totalFrames = 0 if the failed layer is the primary.
C9_FailedLayerHoldsNoFrames ==
  last.kind = "failed" =>
    /\ \A n \in last.failed : Len(LayerAllTimes(timelines, n)) = 0
    /\ last.names[1] \in last.failed => TotalFrames(timelines) = 0

\* C11: when the result of the latest resolve is applied, frameIndex becomes 0
\* if the primary timeline is the HRRR timeline and the primary's last index
\* otherwise; HRRR is primary only when the resolve had no time-mode layer,
\* and then no time-mode layer is active.
C11_InitialFrameOnApply ==
  [][\A r \in inflight :
       (r.fetchId = fetchRef /\ ResponseOk(r)) =>
         /\ TimelineNameSeq(timelines') = RequestNameSeq(r)
         /\ timelines' # << >>
         /\ frameIndex' = IF timelines'[1].wmsLayer = HRRR_TIMELINE_KEY
                          THEN 0
                          ELSE Len(timelines'[1].times) - 1
         /\ timelines'[1].wmsLayer = HRRR_TIMELINE_KEY =>
              /\ r.names = << >>
              /\ ActiveWmsLayerNames(layers', radarProduct', satelliteProduct') = << >>]_vars

\* the result of a resolve for HRRR alone has been applied: HRRR is the
\* primary with all its forecast frames and the analysis frame is shown
C11_Witness ==
  /\ timelines # << >>
  /\ timelines[1].wmsLayer = HRRR_TIMELINE_KEY
  /\ Len(timelines[1].times) = Len(HRRR_FORECAST_LAYERS)
  /\ frameIndex = 0
  /\ last.kind = "none"
  /\ inflight = {}
  /\ ~loading

\* C23: every timeline the coordinator holds, of a time-mode layer or of the
\* forecast-mode HRRR overlay, has at most MAX_ANIMATION_FRAMES = 18
\* elements (of a longer resolved list the last 18 are kept, in their order).
C23_TimelinesWithinMaximum ==
  \A i \in 1..Len(timelines) :
    /\ Len(timelines[i].times) <= MAX_ANIMATION_FRAMES
    /\ timelines[i].wmsLayer = HRRR_TIMELINE_KEY =>
         timelines[i].times = SliceLast(HRRR_FORECAST_LAYERS, MAX_ANIMATION_FRAMES)

\* C27: with a non-empty active set, refresh() issues a new resolve under the
\* next sequence number and sets loading, and leaves playing, the timelines
\* and the frame index as they are; the completion of a resolve never changes
\* playing either, so an animation that was playing still plays, with its
\* timer, after refresh() and after the response has been applied.
C27_RefreshKeepsPlaying ==
  [][/\ ( /\ fetchRef' # fetchRef
          /\ layers' = layers
          /\ radarProduct' = radarProduct
          /\ satelliteProduct' = satelliteProduct ) =>
            /\ fetchRef' = fetchRef + 1
            /\ loading'
            /\ playing' = playing
            /\ timelines' = timelines
            /\ frameIndex' = frameIndex
            /\ timers' = timers
            /\ inflight' = inflight \cup
                 {[fetchId |-> fetchRef',
                   names |-> ActiveWmsLayerNames(layers, radarProduct, satelliteProduct),
                   hrrr |-> layers["hrrr"]]}
     /\ (\E r \in inflight : r \notin inflight') =>
            /\ playing' = playing
            /\ (playing /\ TotalFrames(timelines') > 0) =>
                 (timers' # {} /\ \A t \in timers' : t.total = TotalFrames(timelines'))]_vars

\* the animation plays, its timer running, while the resolve of a refresh()
\* of the initial selection is in flight
C27_Witness ==
  /\ playing
  /\ loading
  /\ timers # {}
  /\ fetchRef = 2
  /\ layers = InitLayers
  /\ radarProduct = "rain"
  /\ \E r \in inflight : r.fetchId = fetchRef

(***************************************************************************)
(* Properties of the playback timer.                                       *)
(***************************************************************************)
\* C14: at most one playback timer exists at any moment, and one exists iff
\* the coordinator is mounted, playing and totalFrames > 0; when playing or
\* totalFrames changes the old timer is cleared before a new one is created,
\* so the only timer left is the new one, with the new totalFrames; after the
\* coordinator is torn down no timer remains and frameIndex never changes.
C14_SinglePlaybackTimer ==
  /\ [](/\ Cardinality(timers) <= 1
        /\ timers # {} <=> (pageMounted /\ playing /\ TotalFrames(timelines) > 0)
        /\ ~pageMounted => timers = {})
  /\ [][((playing' # playing \/ TotalFrames(timelines') # TotalFrames(timelines)) =>
            timers' \subseteq {[id |-> intervalRef', total |-> TotalFrames(timelines')]})
        /\ (~pageMounted => frameIndex' = frameIndex)]_vars

\* the coordinator was torn down while it was playing a non-empty timeline:
\* the timer it had is gone
C14_Witness ==
  /\ ~pageMounted
  /\ playing
  /\ TotalFrames(timelines) > 0
  /\ timers = {}
  /\ intervalRef # 0

(***************************************************************************)
(* Properties of the teardown of an overlay.                               *)
(***************************************************************************)
\* C15: when an overlay is deactivated or the whole map is unmounted, in that
\* same step all its per-frame layers and its placeholder leave the map and
\* its pending batch timer is cleared; as long as it stays deactivated it has
\* no layer on the map and no timer, so no batch callback runs for it and no
\* per-frame layer is created for it.
C15_TeardownRemovesLayersAndTimer ==
  /\ [](\A id \in OverlayIds :
          ~comp[id].mounted => (comp[id].onMap = NoLayers /\ ~comp[id].batchTimer))
  /\ [][\A id \in OverlayIds :
          ~comp[id].mounted => (~comp'[id].mounted => comp'[id] = comp[id])]_vars

\* the HRRR overlay was torn down while its batch timer was pending
C15_Witness ==
  /\ last.kind = "teardown"
  /\ ~comp["hrrr"].mounted
  /\ comp["hrrr"].onMap = NoLayers
  /\ ~comp["hrrr"].batchTimer

\* C16: a selection change or the completion of a resolve leaves an overlay
\* that stays active with the same frame-key list content untouched: none of
\* its layers is removed or re-created, its loaded set, its placeholder and
\* cutover state and its batch progress are unchanged (only the opacities of
\* a frame swap may differ).
C16_UnchangedListUntouched ==
  [][(inflight' # inflight \/ layers' # layers) =>
       LET ovsOld == CurrentOverlays
           ovsNew == CurrentOverlays'
       IN \A id \in DOMAIN ovsOld \cap DOMAIN ovsNew :
            ovsOld[id].allTimes = ovsNew[id].allTimes =>
              /\ comp'[id] = [comp[id] EXCEPT !.activeTimeRef = comp'[id].activeTimeRef,
                                              !.onMap = comp'[id].onMap]
              /\ DOMAIN comp'[id].onMap = DOMAIN comp[id].onMap
              /\ \A k \in DOMAIN comp[id].onMap :
                   /\ comp'[id].onMap[k].layers = comp[id].onMap[k].layers
                   /\ comp'[id].onMap[k].time = comp[id].onMap[k].time]_vars

\* the radar overlay kept its loaded frames and its cutover through the
\* activation of lightning: its cache entry was pruned by that change and no
\* frame has loaded since
C16_Witness ==
  /\ layers["lightning"]
  /\ comp["radar-rain"].mounted
  /\ comp["radar-rain"].loadedTimesRef # {}
  /\ ~comp["radar-rain"].staticLayerRef
  /\ "radar-rain" \notin DOMAIN cacheRef

\* C25: in time-mode every per-frame layer has the overlay's base layer name
\* and a TIME parameter equal to its frame key; in forecast-mode it has its
\* frame key as layer name and no TIME parameter; the placeholder has no TIME
\* parameter and has the base layer name in time-mode and the first frame
\* key in forecast-mode; every per-frame layer is created at opacity 0.
C25_LayerNameAndTimePerMode ==
  \A id \in DOMAIN CurrentOverlays :
    LET ov == CurrentOverlays[id]
        c == comp[id]
    IN /\ \A k \in DOMAIN c.onMap \ {StaticKey} :
            /\ ~ov.forecastMode => (c.onMap[k].layers = ov.layers /\ c.onMap[k].time = k)
            /\ ov.forecastMode => (c.onMap[k].layers = k /\ c.onMap[k].time = "")
       /\ StaticKey \in DOMAIN c.onMap =>
            /\ c.onMap[StaticKey].time = ""
            /\ ~ov.forecastMode => c.onMap[StaticKey].layers = ov.layers
            /\ ov.forecastMode =>
                 /\ c.onMap[StaticKey].layers = HRRR_FORECAST_LAYERS[1]
                 /\ ov.allTimes # << >> => c.onMap[StaticKey].layers = ov.allTimes[1]
       /\ \A k \in Range(ov.allTimes) :
            LET made == AddFrame(ov, c, k).onMap[k]
            IN /\ made.opacity = 0
               /\ made.layers = (IF ov.forecastMode THEN k ELSE ov.layers)
               /\ made.time = (IF ov.forecastMode THEN "" ELSE k)

\* radar and HRRR both have their placeholder and per-frame layers on the
\* map: the radar frames differ in TIME, the HRRR frames in layer name
C25_Witness ==
  /\ comp["radar-rain"].mounted
  /\ comp["hrrr"].mounted
  /\ StaticKey \in DOMAIN comp["radar-rain"].onMap
  /\ StaticKey \in DOMAIN comp["hrrr"].onMap
  /\ Cardinality(DOMAIN comp["radar-rain"].onMap) >= 3
  /\ "refd_0180" \in DOMAIN comp["hrrr"].onMap
  /\ comp["hrrr"].onMap["refd_0180"] = [opacity |-> 0, layers |-> "refd_0180", time |-> ""]

\* C26: a change of the frame index alone (same active layers, products and
\* timelines) changes nothing of an overlay descriptor but its current frame
\* key: id, url, layers, frame-key list and forecast-mode flag stay the same,
\* and the HRRR overlay's layers is the same constant at every frame; so a
\* step or a tick of playback tears down no pre-cache and re-creates no
\* placeholder: every layer on the map stays, with its name and TIME, and
\* the batch and load progress are untouched.
C26_FrameChangeKeepsDescriptors ==
  [][( /\ frameIndex' # frameIndex
       /\ timelines' = timelines
       /\ layers' = layers
       /\ radarProduct' = radarProduct
       /\ satelliteProduct' = satelliteProduct ) =>
       LET ovs == CurrentOverlays
           ovsN == CurrentOverlays'
       IN /\ DOMAIN ovsN = DOMAIN ovs
          /\ \A id \in DOMAIN ovs :
               /\ ovsN[id] = [ovs[id] EXCEPT !.time = ovsN[id].time]
               /\ ovsN[id].id = id
               /\ id = "hrrr" => ovsN[id].layers = HRRR_FORECAST_LAYERS[1]
               /\ comp'[id] = [comp[id] EXCEPT !.onMap = comp'[id].onMap,
                                               !.activeTimeRef = comp'[id].activeTimeRef]
               /\ DOMAIN comp'[id].onMap = DOMAIN comp[id].onMap
               /\ \A k \in DOMAIN comp[id].onMap :
                    /\ comp'[id].onMap[k].layers = comp[id].onMap[k].layers
                    /\ comp'[id].onMap[k].time = comp[id].onMap[k].time]_vars

\* playback has moved the HRRR overlay, primary, to its second forecast
\* frame while its per-frame layers are still being created
C26_Witness ==
  /\ last.kind = "tick"
  /\ "hrrr" \in DOMAIN CurrentOverlays
  /\ CurrentOverlays["hrrr"].time = HRRR_FORECAST_LAYERS[2]
  /\ CurrentOverlays["hrrr"].layers = HRRR_FORECAST_LAYERS[1]
  /\ comp["hrrr"].idx >= 2 * BATCH_SIZE
  /\ comp["hrrr"].batchTimer

\* C17: when the frame-key list of an active overlay changes, every per-frame
\* layer it had is removed and its loaded set is emptied, and right after the
\* change its cache entry, if it has one, reads loaded = 0 against the new
\* total, so that no frame of the old list counts as loaded.
C17_ListChangeResetsLoadedCount ==
  [][timelines' # timelines =>
       LET ovsOld == CurrentOverlays
           ovsNew == CurrentOverlays'
       IN \A id \in DOMAIN ovsOld \cap DOMAIN ovsNew :
            ovsOld[id].allTimes # ovsNew[id].allTimes =>
              /\ comp'[id].loadedTimesRef = {}
              /\ \A k \in DOMAIN comp'[id].onMap \ {StaticKey} :
                   comp'[id].onMap[k].opacity = 0 \/ k = ovsNew[id].time
              /\ id \in DOMAIN cacheRef' =>
                   /\ cacheRef'[id].loaded = 0
                   /\ cacheRef'[id].total = Len(ovsNew[id].allTimes)]_vars

\* C18: after an overlay's cutover, a frame switch to a key that has no layer
\* in the registry is a no-op: no opacity changes, the previously visible
\* frame stays visible and the active-frame record is unchanged.
C18_MissingLayerSwitchIsNoOp ==
  [][(timelines' = timelines /\ frameIndex' # frameIndex) =>
       LET ovsNew == CurrentOverlays'
       IN \A id \in DOMAIN ovsNew :
            (/\ comp[id].mounted
             /\ ~comp[id].staticLayerRef
             /\ ovsNew[id].time # ""
             /\ ovsNew[id].time \notin comp[id].frameLayersRef) =>
              /\ comp'[id].onMap = comp[id].onMap
              /\ comp'[id].activeTimeRef = comp[id].activeTimeRef]_vars

\* C19: a per-frame layer created for a previous frame-key list, or removed
\* by teardown, is off the map and so delivers no 'load' any more: the layers
\* that can fire are those of the registry, all of the current list, and
\* whenever a 'load' changes the loaded set, the reported count or the
\* cutover, only frames of the current list are counted.
C19_NoStaleLoadCounted ==
  /\ [](\A id \in OverlayIds :
          /\ DOMAIN comp[id].onMap \ {StaticKey} = comp[id].frameLayersRef
          /\ comp[id].mounted =>
               comp[id].frameLayersRef \subseteq Range(CurrentOverlays[id].allTimes)
          /\ ~comp[id].mounted => comp[id].onMap = NoLayers)
  /\ [][(timelines' = timelines /\ layers' = layers /\ comp' # comp) =>
          LET ovs == CurrentOverlays
          IN \A id \in DOMAIN ovs :
               LET cur == Range(ovs[id].allTimes)
               IN /\ comp'[id].loadedTimesRef \ comp[id].loadedTimesRef \subseteq cur
                  /\ comp'[id].reported # comp[id].reported =>
                       comp'[id].reported = Cardinality(comp'[id].loadedTimesRef \cap cur)
                  /\ (comp[id].staticLayerRef /\ ~comp'[id].staticLayerRef) =>
                       cur \subseteq comp'[id].loadedTimesRef]_vars

\* after its cutover the radar overlay's list was replaced, the layers of
\* the old list are gone and the first frame of the new list has loaded
C19_Witness ==
  /\ comp["radar-rain"].mounted
  /\ ~comp["radar-rain"].staticLayerRef
  /\ comp["radar-rain"].loadedTimesRef # {}
  /\ Cardinality(comp["radar-rain"].loadedTimesRef) < Len(comp["radar-rain"].runTimes)
  /\ comp["radar-rain"].reported = Cardinality(comp["radar-rain"].loadedTimesRef)
  /\ DOMAIN comp["radar-rain"].onMap = Range(CurrentOverlays["radar-rain"].allTimes)

(***************************************************************************)
(* Properties of the proportional mapping of the frame index.              *)
(***************************************************************************)
\* is key the k-th frame (from 0) of the overlay's list
IsFrameAt(ov, k, key) == k \in 0..(Len(ov.allTimes) - 1) /\ key = ov.allTimes[k + 1]

\* k is x = num / den rounded to the nearest integer, halves upwards
IsRounded(k, num, den) ==
  /\ 2 * k * den - den <= 2 * num
  /\ 2 * num < 2 * k * den + den

\* C12: with a primary of P > 1 frames at index i, an overlay whose timeline
\* has S >= 1 frames is given the frame at index round(i / (P-1) * (S-1));
\* for P = 10 and S = 4 that is 3 at i = 9, 0 at i = 0 and 1 at i = 4; with
\* P <= 1 every overlay is given its last frame.
C12_ProportionalFrame ==
  LET P == TotalFrames(timelines)
      ovs == CurrentOverlays
  IN \A id \in DOMAIN ovs :
       LET S == Len(ovs[id].allTimes)
       IN S >= 1 =>
            /\ P <= 1 => IsFrameAt(ovs[id], S - 1, ovs[id].time)
            /\ (P > 1 /\ frameIndex \in 0..(P - 1)) =>
                 \E k \in 0..(S - 1) :
                   /\ IsRounded(k, frameIndex * (S - 1), P - 1)
                   /\ IsFrameAt(ovs[id], k, ovs[id].time)
            /\ (P = 10 /\ S = 4 /\ frameIndex = 9) => IsFrameAt(ovs[id], 3, ovs[id].time)
            /\ (P = 10 /\ S = 4 /\ frameIndex = 0) => IsFrameAt(ovs[id], 0, ovs[id].time)
            /\ (P = 10 /\ S = 4 /\ frameIndex = 4) => IsFrameAt(ovs[id], 1, ovs[id].time)

\* a primary of 10 frames at index 4 and a secondary of 4 frames showing its
\* frame 1, not its frame 4
C12_Witness ==
  /\ TotalFrames(timelines) = 10
  /\ frameIndex = 4
  /\ "lightning" \in DOMAIN CurrentOverlays
  /\ Len(CurrentOverlays["lightning"].allTimes) = 4
  /\ CurrentOverlays["lightning"].time = CurrentOverlays["lightning"].allTimes[2]
  /\ last.kind = "stepForward"

(***************************************************************************)
(* Properties of the frame index controls.                                 *)
(***************************************************************************)
\* C13: with totalFrames >= 1, seek(i) sets frameIndex to
\* min(max(i, 0), totalFrames - 1) for every integer i, in both animation
\* hooks, so that 0 <= frameIndex <= totalFrames - 1 afterwards; an index
\* beyond either end is clamped to that end, never wrapped to the other.
C13_SeekClamps ==
  [][\A i \in SeekInputs :
       (TotalFrames(timelines) >= 1 /\ Seek(i)) =>
         LET n == TotalFrames(timelines)
             clamped == Min2(Max2(i, 0), n - 1)
         IN /\ frameIndex' = clamped
            /\ frameIndex' \in 0..(n - 1)
            /\ i < 0 => frameIndex' = 0
            /\ i > n - 1 => frameIndex' = n - 1
            /\ ModelSeekIndex(i, n) = clamped]_vars

\* a seek has moved the index from the last frame to frame 0 of a timeline of
\* several frames
C13_Witness ==
  /\ TotalFrames(timelines) >= 3
  /\ timelines[1].wmsLayer # HRRR_TIMELINE_KEY
  /\ frameIndex = 0
  /\ last.kind = "none"
  /\ inflight = {}

\* C10: for totalFrames = n >= 1 and frameIndex = i in 0..n-1, stepForward and
\* a tick of the playback timer both yield (i+1) mod n, stepBackward yields
\* (i-1+n) mod n; stepBackward from 0 gives n-1, a tick from n-1 gives 0, and
\* stepBackward undoes stepForward.
C10_StepsAndTicksWrapAround ==
  [][LET n == TotalFrames(timelines)
         i == frameIndex
     IN (n >= 1 /\ i \in 0..(n - 1)) =>
          /\ last'.kind \in {"stepForward", "tick"} => frameIndex' = (i + 1) % n
          /\ last'.kind = "stepBackward" => frameIndex' = (i - 1 + n) % n
          /\ (last'.kind = "stepBackward" /\ i = 0) => frameIndex' = n - 1
          /\ (last'.kind = "tick" /\ i = n - 1) => frameIndex' = 0
          /\ StepBackwardIndex(StepForwardIndex(i, n), n) = i
          /\ \A t \in timers : StepForwardIndex(i, t.total) = StepForwardIndex(i, n)]_vars

\* the playback timer has just wrapped from the last frame of several to the first
C10_Witness ==
  /\ last.kind = "tick"
  /\ playing
  /\ TotalFrames(timelines) >= 2
  /\ frameIndex = 0

(***************************************************************************)
(* Properties of MapPage's cache bookkeeping.                              *)
(***************************************************************************)
\* the status MapPage holds for an overlay; none recorded is 0 of 0
EntryOf(cache, id) ==
  IF id \in DOMAIN cache THEN cache[id] ELSE [loaded |-> 0, total |-> 0]

FullyCached(cache, id) ==
  id \in DOMAIN cache /\ cache[id].total > 0 /\ cache[id].loaded = cache[id].total
PartlyCached(cache, id) ==
  id \in DOMAIN cache /\ cache[id].loaded < cache[id].total

\* C2: with two active overlays, X fully cached and Y partly cached,
\* deactivating only Y leaves X's cache entry unchanged and the aggregate
\* progress afterwards is X's loaded / total.
C2_DeactivationKeepsOtherEntry ==
  [][\A y \in MapLayerIds :
       ( /\ layers[y]
         /\ layers' = [layers EXCEPT ![y] = FALSE]
         /\ Cardinality(DOMAIN CurrentOverlays) = 2 )
       => \A x \in DOMAIN CurrentOverlays' :
            ( /\ FullyCached(cacheRef, x)
              /\ \A yid \in DOMAIN CurrentOverlays \ DOMAIN CurrentOverlays' :
                   PartlyCached(cacheRef, yid) )
            => /\ x \in DOMAIN cacheRef'
               /\ cacheRef'[x] = cacheRef[x]
               /\ cacheProgress'.num * cacheRef[x].total
                    = cacheRef[x].loaded * cacheProgress'.den]_vars

\* C3: with an overlay active, cacheReady is true iff every active overlay
\* has loaded = total and total > 0.
C3_ReadyIffEveryActiveOverlayLoaded ==
  DOMAIN CurrentOverlays # {} =>
    ( cacheReady <=>
        \A id \in DOMAIN CurrentOverlays :
          /\ EntryOf(cacheRef, id).total > 0
          /\ EntryOf(cacheRef, id).loaded = EntryOf(cacheRef, id).total )

\* the entries MapPage holds for the overlays that are active now
ActiveEntries ==
  [id \in DOMAIN cacheRef \cap DOMAIN CurrentOverlays |-> cacheRef[id]]

\* C24: the progress shown is sum(loaded) / sum(total) over the entries of
\* the currently active overlays, and 0 with ready = false when sum(total) is
\* 0; it lies in [0, 1]; ready is exactly sum(loaded) >= sum(total) and
\* sum(total) > 0; this holds after a load report and after a change of the
\* overlay set alike.
C24_AggregateOverActiveOverlays ==
  LET loadedAll == SumField(ActiveEntries, DOMAIN ActiveEntries, "loaded")
      totalAll == SumField(ActiveEntries, DOMAIN ActiveEntries, "total")
  IN /\ cacheProgress.den > 0
     /\ 0 <= cacheProgress.num /\ cacheProgress.num <= cacheProgress.den
     /\ totalAll > 0 => cacheProgress.num * totalAll = loadedAll * cacheProgress.den
     /\ totalAll = 0 => (cacheProgress.num = 0 /\ ~cacheReady)
     /\ cacheReady <=> (loadedAll >= totalAll /\ totalAll > 0)

(***************************************************************************)
(* Properties of WmsAnimatedLayer.                                         *)
(***************************************************************************)
LoadedOf(id) == comp[id].loadedTimesRef \cap Range(CurrentOverlays[id].allTimes)
VisibleKeys(id) == { k \in DOMAIN comp[id].onMap : comp[id].onMap[k].opacity > 0 }

\* C4: for an overlay with n frame keys, the placeholder is on the map until
\* the n-th distinct frame has loaded, and once all n have loaded the overlay
\* has reported n of n, the placeholder has been removed exactly once and the
\* layer of the current frame key has the target opacity.
C4_CutoverAfterLastLoad ==
  \A id \in DOMAIN CurrentOverlays :
    LET c == comp[id]
        ov == CurrentOverlays[id]
        n == Len(ov.allTimes)
    IN n >= 1 =>
         /\ Cardinality(LoadedOf(id)) < n => StaticKey \in DOMAIN c.onMap
         /\ LoadedOf(id) = Range(ov.allTimes) =>
              /\ c.reported = n
              /\ Len(c.runTimes) = n
              /\ c.staticRemovals = 1
              /\ StaticKey \notin DOMAIN c.onMap
              /\ ov.time \in DOMAIN c.onMap
              /\ c.onMap[ov.time].opacity = ov.opacity

\* C5: while fewer than all frames of a mounted overlay's current frame-key
\* list have loaded, its placeholder is on the map and visible and every
\* per-frame layer has opacity 0; a mounted overlay always has a visible layer.
C5_PlaceholderWhileLoading ==
  \A id \in DOMAIN CurrentOverlays :
    /\ Cardinality(LoadedOf(id)) < Len(CurrentOverlays[id].allTimes) =>
         VisibleKeys(id) = {StaticKey}
    /\ VisibleKeys(id) # {}

PrecacheCompleteFor(ov, c) ==
  /\ ~c.staticLayerRef
  /\ StaticKey \notin DOMAIN c.onMap
  /\ ov.allTimes # << >>
  /\ c.loadedTimesRef = Range(ov.allTimes)

PrecacheComplete(id) ==
  /\ comp[id].mounted
  /\ PrecacheCompleteFor(CurrentOverlays[id], comp[id])

\* C6: once an overlay's pre-cache has completed, a change of its current
\* frame key by a step of the frame index creates and removes no layer, leaves
\* the loaded frames and the reported count as they are, sets the previously
\* active layer's opacity to 0 and the newly active layer's to the target.
C6_FrameSwapTogglesOpacityOnly ==
  [][(timelines' = timelines /\ layers' = layers /\ frameIndex' # frameIndex) =>
       LET ovs == CurrentOverlays
           ovsN == CurrentOverlays'
       IN \A id \in DOMAIN ovs :
            (PrecacheCompleteFor(ovs[id], comp[id]) /\ ovsN[id].time # ovs[id].time)
            => /\ comp'[id].frameLayersRef = comp[id].frameLayersRef
               /\ DOMAIN comp'[id].onMap = DOMAIN comp[id].onMap
               /\ comp'[id].loadedTimesRef = comp[id].loadedTimesRef
               /\ comp'[id].reported = comp[id].reported
               /\ cacheRef' = cacheRef
               /\ \A k \in DOMAIN comp'[id].onMap \ {ovsN[id].time} :
                    comp'[id].onMap[k].opacity = 0
               /\ comp'[id].onMap[ovsN[id].time].opacity = ovsN[id].opacity
               /\ comp'[id].activeTimeRef = ovsN[id].time]_vars

\* the primary overlay, fully pre-cached, just after stepForward moved it to
\* another frame: that frame's layer alone is visible
C6_Witness ==
  /\ last.kind = "stepForward"
  /\ \E id \in OverlayIds :
       /\ PrecacheComplete(id)
       /\ timelines[1].wmsLayer = CurrentOverlays[id].layers
       /\ Len(CurrentOverlays[id].allTimes) >= 2
       /\ VisibleKeys(id) = {CurrentOverlays[id].time}
       /\ comp[id].activeTimeRef = CurrentOverlays[id].time

\* C7: every report has loaded <= total; while an overlay's frame-key list
\* stays the same its reported loaded never decreases; a 'load' event of an
\* already loaded frame reports the same count again.
C7_ReportedCountBoundedMonotonic ==
  [][/\ \A k \in DOMAIN cacheRef' : cacheRef'[k].loaded <= cacheRef'[k].total
     /\ LET ovs == CurrentOverlays
            ovsN == CurrentOverlays'
        IN \A id \in { x \in OverlayIds : comp[x].mounted /\ comp'[x].mounted } :
             /\ comp'[id].reported <= Len(comp'[id].runTimes)
             /\ (timelines' = timelines \/ ovsN[id].allTimes = ovs[id].allTimes) =>
                  /\ comp'[id].reported >= comp[id].reported
                  /\ comp'[id].loadedTimesRef = comp[id].loadedTimesRef =>
                       comp'[id].reported = comp[id].reported]_vars

\* an overlay with at least two frames has reported all of them loaded
C7_Witness ==
  \E id \in DOMAIN CurrentOverlays :
    /\ Len(comp[id].runTimes) >= 2
    /\ comp[id].reported = Len(comp[id].runTimes)
    /\ id \in DOMAIN cacheRef
    /\ cacheRef[id] = [loaded |-> comp[id].reported, total |-> Len(comp[id].runTimes)]

(***************************************************************************)
(* useModelMapAnimation on its own.  ret holds the state of the hook: its  *)
(* wmsLayerName argument, its five state variables, fetchRef, the          *)
(* fetchTimeDimension calls in flight and, as history, what the last step  *)
(* was.  A timestamp of a resolved list is its position in that list.      *)
(* Playback is never started: of the controls only stepForward is used.    *)
(***************************************************************************)
ModelLayerNames == {"", "HRDPS.CONTINENTAL_TT", "HRDPS.CONTINENTAL_PR"}

ModelListLengths ==
  { k * MAX_FRAMES + d : k \in 0..MaxSteps, d \in (0 - MaxOver)..MaxOver } \cap Nat

FullList(L) == [i \in 1..L |-> i - 1]

\* a sampling that keeps the first MAX_FRAMES timestamps
ModelSampleHead(full) == SubSeq(full, 1, Min2(Len(full), MAX_FRAMES))

\* full.filter((_, i) => i % step === 0), from index i on
RECURSIVE FilterEveryStep(_, _, _)
FilterEveryStep(full, step, i) ==
  IF i >= Len(full) THEN << >>
  ELSE (IF i % step = 0 THEN << full[i + 1] >> ELSE << >>)
       \o FilterEveryStep(full, step, i + 1)

\* sampled: up to MAX_FRAMES evenly spaced from the full list
ModelSample(full) ==
  IF Len(full) <= MAX_FRAMES THEN full
  ELSE FilterEveryStep(full, CeilDiv(Len(full), MAX_FRAMES), 0)

ModelIsLatest(fetchId, ref) == fetchId = ref

NoModelEvent == [kind |-> "none", fetchId |-> 0, full |-> 0]

\* the fetch effect, deps [wmsLayerName]
ModelFetchEffect(h, name) ==
  IF name = ""
  THEN [h EXCEPT !.wmsLayerName = name, !.times = << >>, !.frameIndex = 0,
                 !.playing = FALSE, !.error = "null", !.last = NoModelEvent]
  ELSE [h EXCEPT !.wmsLayerName = name, !.fetchRef = h.fetchRef + 1,
                 !.loading = TRUE, !.error = "null", !.playing = FALSE,
                 !.inflight = h.inflight \cup {[fetchId |-> h.fetchRef + 1, name |-> name]},
                 !.last = NoModelEvent]

ModelHookUnchanged ==
  UNCHANGED << call, pageMounted, layers, radarProduct, satelliteProduct, cacheRef,
               cacheReady, cacheProgress, timelines, frameIndex, playing, loading,
               fetchRef, inflight, timers, intervalRef, comp, last >>

InitModelAnim ==
  /\ call = [fn |-> "useModelMapAnimation"]
  /\ ret = << ModelFetchEffect([wmsLayerName |-> "", times |-> << >>, frameIndex |-> 0,
                                playing |-> FALSE, loading |-> FALSE, error |-> "null",
                                fetchRef |-> 0, inflight |-> {}, last |-> NoModelEvent],
                               "HRDPS.CONTINENTAL_TT") >>
  /\ InitMapPage

\* ModelMapViewer renders the hook with another layer name
ModelSetLayer(name) ==
  /\ call.fn = "useModelMapAnimation"
  /\ name # ret[1].wmsLayerName
  /\ name = "" \/ ret[1].fetchRef < MaxFetch
  /\ ret' = << ModelFetchEffect(ret[1], name) >>
  /\ ModelHookUnchanged

\* the .then callback of the call r, whose list has L timestamps
ModelResponseOk(r, L) ==
  /\ call.fn = "useModelMapAnimation"
  /\ r \in ret[1].inflight
  /\ ret' = << IF ModelIsLatest(r.fetchId, ret[1].fetchRef)
               THEN [ret[1] EXCEPT !.times = ModelSample(FullList(L)),
                                   !.frameIndex = 0,
                                   !.loading = FALSE,
                                   !.inflight = ret[1].inflight \ {r},
                                   !.last = [kind |-> "ok", fetchId |-> r.fetchId, full |-> L]]
               ELSE [ret[1] EXCEPT !.inflight = ret[1].inflight \ {r},
                                   !.last = [kind |-> "ok", fetchId |-> r.fetchId, full |-> L]] >>
  /\ ModelHookUnchanged

\* the .catch callback of the call r
ModelResponseFailed(r) ==
  /\ call.fn = "useModelMapAnimation"
  /\ r \in ret[1].inflight
  /\ ret' = << IF ModelIsLatest(r.fetchId, ret[1].fetchRef)
               THEN [ret[1] EXCEPT !.error = "message",
                                   !.times = << >>,
                                   !.loading = FALSE,
                                   !.inflight = ret[1].inflight \ {r},
                                   !.last = [kind |-> "failed", fetchId |-> r.fetchId, full |-> 0]]
               ELSE [ret[1] EXCEPT !.inflight = ret[1].inflight \ {r},
                                   !.last = [kind |-> "failed", fetchId |-> r.fetchId, full |-> 0]] >>
  /\ ModelHookUnchanged

ModelStepForward ==
  /\ call.fn = "useModelMapAnimation"
  /\ ret' = << [ret[1] EXCEPT !.frameIndex = JsRem(ret[1].frameIndex + 1,
                                                   JsMax(Len(ret[1].times), 1)),
                              !.last = NoModelEvent] >>
  /\ ModelHookUnchanged

NextModelAnim ==
  \/ \E name \in ModelLayerNames : ModelSetLayer(name)
  \/ \E r \in ret[1].inflight : \E L \in ModelListLengths : ModelResponseOk(r, L)
  \/ \E r \in ret[1].inflight : ModelResponseFailed(r)
  \/ ModelStepForward

SpecModelAnim == InitModelAnim /\ [][NextModelAnim]_vars

(***************************************************************************)
(* C29: every tile layer created for an overlay, the placeholder and each  *)
(* per-frame layer, carries the extra static query parameters of the       *)
(* overlay descriptor in its tile requests.                                *)
(***************************************************************************)
C29_LayersCarryExtraParams ==
  (call.fn = "WmsAnimatedLayer" /\ ret # NoRet) =>
    \A k \in DOMAIN ret[1].comp.onMap :
      call.overlay.extraParams \subseteq RequestParams(ret[1].comp.onMap[k])

(***************************************************************************)
(* C30: after a list of n frame keys becomes active for an overlay, the    *)
(* per-frame layers are created in list order in batches of at most 3:     *)
(* min(3, n) with the mount, then at most 3 more per firing of the batch   *)
(* timer; at most one batch timer is pending at any time; with no          *)
(* teardown, all n layers are eventually there after ceil(n/3) batches,    *)
(* each key once, and no timer is left pending.                            *)
(***************************************************************************)
CompOf(r) == IF r = NoRet THEN FreshComp ELSE r[1].comp

AllFramesCreated ==
  /\ ret # NoRet
  /\ LET c == ret[1].comp
         n == Len(call.overlay.allTimes)
     IN /\ c.idx = n
        /\ c.frameLayersRef = Range(call.overlay.allTimes)
        /\ Cardinality(c.frameLayersRef) = n
        /\ ret[1].batches = CeilDiv(n, 3)
        /\ ~c.batchTimer
        /\ ret[1].timers = 0

C30_BatchesOfThreeUntilAllCreated ==
  /\ [][ (ret' # ret) =>
           LET c == CompOf(ret)
               d == CompOf(ret')
               n == Len(call.overlay.allTimes)
               created == { call.overlay.allTimes[i] : i \in (c.idx + 1)..d.idx }
           IN /\ d.idx - c.idx <= 3
              /\ (ret = NoRet => d.idx = Min2(3, n))
              /\ (ret # NoRet => d.idx > c.idx)
              /\ created \cap c.frameLayersRef = {}
              /\ Cardinality(created) = d.idx - c.idx
              /\ d.frameLayersRef = c.frameLayersRef \cup created
              /\ DOMAIN d.onMap = DOMAIN c.onMap \cup created \cup {StaticKey} ]_vars
  /\ [](ret # NoRet => /\ ret[1].timers <= 1
                       /\ (ret[1].timers = 1) = ret[1].comp.batchTimer
                       /\ (ret[1].comp.idx < Len(call.overlay.allTimes)) = ret[1].comp.batchTimer)
  /\ ((ret # NoRet) ~> []AllFramesCreated)

C30_Witness ==
  /\ AllFramesCreated
  /\ Len(call.overlay.allTimes) > 2 * BATCH_SIZE
  /\ ret[1].batches = 3

(***************************************************************************)
(* C31: when the active overlay set became empty while a resolve request   *)
(* was in flight, the coordinator is in the Empty state (no timelines,     *)
(* totalFrames = 0, frameIndex = 0, playing = FALSE) and stays in it when  *)
(* the response of that request arrives: the late response does not        *)
(* repopulate the timelines.                                               *)
(***************************************************************************)
NothingSelected(lay, rp, sp) ==
  ActiveWmsLayerNames(lay, rp, sp) = << >> /\ ~lay["hrrr"]

IsEmptyState(tls, fi, p) ==
  tls = << >> /\ TotalFrames(tls) = 0 /\ fi = 0 /\ p = FALSE

C31_LateResponseKeepsEmpty ==
  [][ (/\ NothingSelected(layers, radarProduct, satelliteProduct)
       /\ IsEmptyState(timelines, frameIndex, playing)
       /\ inflight' # inflight
       /\ inflight' \subseteq inflight)
      => IsEmptyState(timelines', frameIndex', playing') ]_vars

(***************************************************************************)
(* C32: in every reachable state of useWmsAnimation, after any sequence of *)
(* resolves (a primary timeline of zero timestamps included), seek,        *)
(* stepForward, stepBackward and timer ticks, frameIndex is an integer     *)
(* with 0 <= frameIndex <= max(totalFrames - 1, 0).                        *)
(***************************************************************************)
C32_FrameIndexInRange ==
  /\ frameIndex # NaN
  /\ frameIndex \in 0..Max2(TotalFrames(timelines) - 1, 0)

(***************************************************************************)
(* C33: loading is TRUE from the moment a resolve request is issued until  *)
(* the most recently issued request completes: the completion of the       *)
(* latest request, success or failure, sets loading to FALSE, the          *)
(* completion of a superseded request leaves it TRUE while the newer one   *)
(* is in flight; once every issued request has completed, loading is       *)
(* FALSE.                                                                  *)
(***************************************************************************)
LatestInFlight(inf, ref) == \E r \in inf : r.fetchId = ref

C33_LoadingUntilLatestCompletes ==
  /\ [](pageMounted => /\ (LatestInFlight(inflight, fetchRef) => loading = TRUE)
                       /\ (inflight = {} => loading = FALSE))
  /\ [][ (pageMounted /\ fetchRef' = fetchRef + 1) =>
           (loading' = TRUE /\ LatestInFlight(inflight', fetchRef')) ]_vars
  /\ [][ (pageMounted /\ inflight' # inflight /\ inflight' \subseteq inflight) =>
           (loading' = IF LatestInFlight(inflight \ inflight', fetchRef)
                       THEN FALSE ELSE loading) ]_vars

C33_Witness ==
  /\ last.kind = "stale"
  /\ loading = TRUE
  /\ LatestInFlight(inflight, fetchRef)

(***************************************************************************)
(* C34: any change to the set of active layer names or to the HRRR toggle  *)
(* sets playing to FALSE, so after a selection change no playback timer    *)
(* runs and frameIndex is not advanced until playback is started again.    *)
(***************************************************************************)
SelectionChanged(layO, rpO, spO, layN, rpN, spN) ==
  \/ ActiveWmsLayerNames(layN, rpN, spN) # ActiveWmsLayerNames(layO, rpO, spO)
  \/ layN["hrrr"] # layO["hrrr"]

C34_SelectionChangeStopsPlayback ==
  /\ [][ SelectionChanged(layers, radarProduct, satelliteProduct,
                          layers', radarProduct', satelliteProduct')
         => (playing' = FALSE /\ timers' = {}) ]_vars
  /\ [][ (playing = FALSE /\ frameIndex' # frameIndex) => last'.kind # "tick" ]_vars
  /\ [](playing = FALSE => timers = {})

\* playback had been started (a timer was created), a selection change has
\* stopped it, and the timelines it ran on are still there
C34_Witness ==
  /\ playing = FALSE
  /\ intervalRef # 0
  /\ timers = {}
  /\ TotalFrames(timelines) > 1
  /\ loading = TRUE

(***************************************************************************)
(* C35: after the cutover of an overlay at most one of its per-frame       *)
(* layers has non-zero opacity, and whenever the current frame key of the  *)
(* overlay has a layer in the registry, that layer has the target          *)
(* opacity, after any sequence of frame changes, load events and           *)
(* replacements of the frame-key list.                                     *)
(***************************************************************************)
CutOver(c) == c.mounted /\ ~c.staticLayerRef /\ c.staticRemovals > 0

ShownKeys(c) == { k \in c.frameLayersRef : c.onMap[k].opacity # 0 }

C35_CurrentFrameShownAlone ==
  LET ovs == CurrentOverlays
  IN \A id \in DOMAIN ovs :
       CutOver(comp[id]) =>
         /\ Cardinality(ShownKeys(comp[id])) <= 1
         /\ (ovs[id].time \in comp[id].frameLayersRef =>
               comp[id].onMap[ovs[id].time].opacity = ovs[id].opacity)

(***************************************************************************)
(* C36: for every primary length P >= 1, primary index i in 0..P-1 and     *)
(* secondary length S >= 1, the mapped secondary index lies in 0..S-1, is  *)
(* non-decreasing in i, is 0 for i = 0 and S-1 for i = P-1 when P > 1,     *)
(* and equals i for the primary timeline itself (S = P).                   *)
(***************************************************************************)
HasMappedIndex(tl, i, P) == LayerTime(tl, i, P) \in Range(tl.times)

\* the index of the frame key that layerTimes gives timeline tl at primary index i
MappedIndex(tl, i, P) ==
  CHOOSE k \in 0..(Len(tl.times) - 1) : tl.times[k + 1] = LayerTime(tl, i, P)

C36_MappedIndexMonotoneOnto ==
  LET P == TotalFrames(timelines)
  IN P >= 1 =>
       \A n \in 1..Len(timelines) :
         LET tl == timelines[n]
             S == Len(tl.times)
         IN S >= 1 =>
              /\ \A i \in 0..(P - 1) :
                   /\ HasMappedIndex(tl, i, P)
                   /\ MappedIndex(tl, i, P) \in 0..(S - 1)
                   /\ (S = P => MappedIndex(tl, i, P) = i)
              /\ \A i, j \in 0..(P - 1) :
                   i <= j => MappedIndex(tl, i, P) <= MappedIndex(tl, j, P)
              /\ (P > 1 => /\ MappedIndex(tl, 0, P) = 0
                           /\ MappedIndex(tl, P - 1, P) = S - 1)
              /\ (frameIndex \in 0..(P - 1) /\ tl.wmsLayer = EC_LAYERS_lightning) =>
                   CurrentOverlays["lightning"].time = tl.times[MappedIndex(tl, frameIndex, P) + 1]

\* stepBackward has wrapped a primary of P frames to its last index and the
\* shorter secondary shows its last frame
C36_Witness ==
  /\ last.kind = "stepBackward"
  /\ TotalFrames(timelines) > Len(timelines[2].times)
  /\ Len(timelines[2].times) > 1
  /\ frameIndex = TotalFrames(timelines) - 1
  /\ CurrentOverlays["lightning"].time = timelines[2].times[Len(timelines[2].times)]

(***************************************************************************)
(* C37: in useModelMapAnimation a response is applied only if its fetch    *)
(* id equals the latest issued one: success of the latest request sets     *)
(* the timeline to the sampled list, frameIndex to 0 and loading to        *)
(* FALSE; failure of the latest request sets the timeline to empty,        *)
(* records an error message and sets loading to FALSE; success or failure  *)
(* of a superseded request changes no state.                               *)
(***************************************************************************)
ModelHookState(h) ==
  << h.times, h.frameIndex, h.playing, h.loading, h.error, h.fetchRef >>

C37_OnlyLatestResponseApplied ==
  [][ (ret'[1].inflight # ret[1].inflight /\ ret'[1].inflight \subseteq ret[1].inflight) =>
        LET h == ret[1]
            g == ret'[1]
        IN /\ g.last.fetchId \in 1..h.fetchRef
           /\ (g.last.fetchId = h.fetchRef /\ g.last.kind = "ok") =>
                /\ g.times = ModelSample(FullList(g.last.full))
                /\ g.frameIndex = 0
                /\ g.loading = FALSE
                /\ << g.playing, g.error, g.fetchRef >> = << h.playing, h.error, h.fetchRef >>
           /\ (g.last.fetchId = h.fetchRef /\ g.last.kind = "failed") =>
                /\ g.times = << >>
                /\ g.error = "message"
                /\ g.loading = FALSE
                /\ << g.playing, g.frameIndex, g.fetchRef >>
                     = << h.playing, h.frameIndex, h.fetchRef >>
           /\ (g.last.fetchId # h.fetchRef) => ModelHookState(g) = ModelHookState(h) ]_vars

\* a superseded request has succeeded with a non-empty list while the newer
\* one is in flight, and the timeline is still empty
C37_Witness ==
  /\ call.fn = "useModelMapAnimation"
  /\ ret[1].last.kind = "ok"
  /\ ret[1].last.fetchId < ret[1].fetchRef
  /\ ret[1].last.full > 0
  /\ ret[1].times = << >>
  /\ ret[1].loading = TRUE
  /\ \E r \in ret[1].inflight : r.fetchId = ret[1].fetchRef

(***************************************************************************)
(* C38: for a resolved list of L timestamps the model-map timeline keeps   *)
(* all L when L <= 48; otherwise it keeps every step-th element with       *)
(* step = ceil(L / 48), starting at index 0, so the kept list has at most  *)
(* 48 elements, preserves the original order and always contains the       *)
(* first timestamp.                                                        *)
(***************************************************************************)
C38_TimelineSampledEvenly ==
  (call.fn = "useModelMapAnimation" /\ ret[1].last.kind = "ok"
     /\ ret[1].last.fetchId = ret[1].fetchRef) =>
    LET L == ret[1].last.full
        full == FullList(L)
        kept == ret[1].times
        step == CeilDiv(L, 48)
    IN /\ (L <= 48 => kept = full)
       /\ (L > 48 =>
             /\ Len(kept) = CeilDiv(L, step)
             /\ \A k \in 1..Len(kept) : kept[k] = full[(k - 1) * step + 1])
       /\ Len(kept) <= 48
       /\ \A k \in 1..(Len(kept) - 1) : kept[k] < kept[k + 1]
       /\ (L > 0 => (Len(kept) > 0 /\ kept[1] = full[1]))

\* a list of more than 2 * 48 timestamps was applied: every third is kept
C38_Witness ==
  /\ call.fn = "useModelMapAnimation"
  /\ ret[1].last.kind = "ok"
  /\ ret[1].last.fetchId = ret[1].fetchRef
  /\ ret[1].last.full > 2 * MAX_FRAMES
  /\ Len(ret[1].times) > 1
  /\ ret[1].times[2] = 3

(***************************************************************************)
(* C39: for valid start and end dates and a step > 0 the interval          *)
(* expansion terminates and returns floor((end - start) / step) + 1        *)
(* strictly increasing timestamps, all within [start, end] and each equal  *)
(* to start + k * step; when start > end it returns the empty list, not    *)
(* the one-element fallback.                                               *)
(***************************************************************************)
ValidDatesAndStep ==
  /\ call.fn = "expandInterval"
  /\ ParseDate(call.parts[1]) # NaN
  /\ ParseDate(call.parts[2]) # NaN
  /\ ParseDuration(call.parts[3]) > 0

C39_ExpansionCountedAndBounded ==
  /\ [](ValidDatesAndStep /\ ret # NoRet =>
          LET start == ParseDate(call.parts[1])
              end == ParseDate(call.parts[2])
              step == ParseDuration(call.parts[3])
          IN /\ (start <= end => Len(ret) = (end - start) \div step + 1)
             /\ (start > end => ret = << >>)
             /\ \A k \in 1..Len(ret) :
                  /\ ret[k].form \in {"Z", ".mmmZ"}
                  /\ ret[k].ms = start + (k - 1) * step
                  /\ start <= ret[k].ms /\ ret[k].ms <= end
             /\ \A k \in 1..(Len(ret) - 1) : ret[k].ms < ret[k + 1].ms)
  /\ [][ValidDatesAndStep /\ ret = NoRet => ret' # NoRet]_vars
  /\ [](ValidDatesAndStep /\ ret = NoRet => ENABLED ExpandIntervalReturns)

\* an interval whose start is after its end has been expanded into nothing
C39_Witness ==
  /\ ValidDatesAndStep
  /\ ParseDate(call.parts[1]) > ParseDate(call.parts[2])
  /\ ret = << >>

====
